---------------------------- MODULE Spec2Model ----------------------------
(***************************************************************************)
(* Z3DS seekable container encoder (z3ds_compression.cpp).                 *)
(*                                                                         *)
(* The model follows CompressZ3DSFile and the SeekableZSTDCompressor it    *)
(* drives.  The destination file is modelled byte for byte (header,        *)
(* metadata block, padding, compressed frames, seek-table trailer), the    *)
(* source file is a byte sequence that is read in chunks, and the I/O      *)
(* environment may fail: a read may return fewer bytes than requested, a   *)
(* write may put the output stream into its failed state, the external     *)
(* compressor may report an error.                                         *)
(***************************************************************************)
EXTENDS Integers, Sequences, FiniteSets

(***************************************************************************)
(* Bounds of the exploration.                                              *)
(***************************************************************************)
\* longest source file, in bytes
MaxLen == 3
\* largest frame_size the caller passes (0 is included in the inputs)
MaxFrame == 2
\* longest value of the caller's extra metadata item, in bytes
MaxExtraLen == 3
\* longest source file of the runs that pass extra metadata
MaxMetaSrcLen == 2
\* the read buffer of CompressZ3DSFile (64 KiB in the source), scaled down
BUFFER_SIZE == 2
\* most Add calls made on one Z3DSMetadata object
MaxAdds == 2
\* most items before the end of a metadata block handed to the parser
MaxItems == 2
\* most WriteData calls made on a compressor whose byte counts are followed
MaxFeeds == 2

\* byte values the source file is drawn from
SrcBytes == {0, 171}

(***************************************************************************)
(* Integer helpers.                                                        *)
(***************************************************************************)
Min(a, b) == IF a < b THEN a ELSE b

Max(a, b) == IF a > b THEN a ELSE b

RECURSIVE LE(_, _)
\* the k low-order bytes of n, least significant first
LE(n, k) == IF k = 0 THEN <<>> ELSE <<n % 256>> \o LE(n \div 256, k - 1)

RECURSIVE FromLE(_)
\* the integer a little-endian byte sequence denotes
FromLE(bytes) ==
    IF bytes = <<>> THEN 0 ELSE bytes[1] + 256 * FromLE(Tail(bytes))

RECURSIVE Xor(_, _, _)
\* bitwise exclusive or of the k low bits of a and b
Xor(a, b, k) ==
    IF k = 0 THEN 0
    ELSE ((a + b) % 2) + 2 * Xor(a \div 2, b \div 2, k - 1)

RECURSIVE Flatten(_)
\* concatenation of a sequence of byte sequences
Flatten(chunks) ==
    IF chunks = <<>> THEN <<>> ELSE Head(chunks) \o Flatten(Tail(chunks))

\* the n bytes at offset off
Field(bytes, off, n) == SubSeq(bytes, off + 1, off + n)

RECURSIVE Zeros(_)
Zeros(n) == IF n = 0 THEN <<>> ELSE <<0>> \o Zeros(n - 1)

RECURSIVE Fill(_, _)
Fill(n, b) == IF n = 0 THEN <<>> ELSE <<b>> \o Fill(n - 1, b)

RECURSIVE SeqsUpTo(_, _)
\* all sequences over S of length at most n
SeqsUpTo(S, n) ==
    IF n = 0 THEN {<<>>}
    ELSE LET shorter == SeqsUpTo(S, n - 1)
         IN  shorter \cup {Append(s, x) : s \in shorter, x \in S}

RECURSIVE Orders(_)
\* every enumeration order of a finite set
Orders(S) ==
    IF S = {} THEN {<<>>}
    ELSE UNION {{<<x>> \o p : p \in Orders(S \ {x})} : x \in S}

RECURSIVE to_string(_)
\* std::to_string of an unsigned value: its decimal digits as characters
to_string(n) ==
    IF n < 10 THEN <<48 + n>> ELSE to_string(n \div 10) \o <<48 + (n % 10)>>

(***************************************************************************)
(* SimpleHash64, low 32 bits.  h = seed + len; for each byte h ^= byte,    *)
(* h *= 1099511628211.  Only h & 0xFFFFFFFF is used by the caller, and the *)
(* low 32 bits of the product depend only on the low 32 bits of the        *)
(* factors (1099511628211 mod 2^32 = 435), so the hash is carried as two   *)
(* 16-bit limbs <<hi, lo>>.                                                *)
(***************************************************************************)
FNV_PRIME_LOW32 == 435

HashStep(h, byte) ==
    LET x  == (h[2] \div 256) * 256 + Xor(h[2] % 256, byte, 8)
        p  == x * FNV_PRIME_LOW32
        hi == (h[1] * FNV_PRIME_LOW32 + p \div 65536) % 65536
    IN  <<hi, p % 65536>>

RECURSIVE HashFold(_, _)
HashFold(h, data) ==
    IF data = <<>> THEN h ELSE HashFold(HashStep(h, Head(data)), Tail(data))

\* static_cast<u32>(SimpleHash64(data, len, seed) & 0xFFFFFFFF), as 4 LE bytes
SimpleHash64(data, seed) ==
    LET h == HashFold(<<0, (seed + Len(data)) % 65536>>, data)
    IN  LE(h[2], 2) \o LE(h[1], 2)

(***************************************************************************)
(* XXH64 of the other build of the encoder (part_000).  A u64 is carried   *)
(* as its 8 bytes, least significant first, and the arithmetic is done     *)
(* modulo 2^64 on the bytes.                                               *)
(***************************************************************************)
\* 11400714785074694791, 14029467366897019727, 1609587929392839161,
\* 9650029242287828579, 2870177450012600261
prime64_1 == <<135, 202, 235, 133, 177, 121, 55, 158>>
prime64_2 == <<79, 235, 212, 39, 61, 174, 178, 194>>
prime64_3 == <<249, 121, 55, 158, 177, 103, 86, 22>>
prime64_4 == <<99, 174, 178, 194, 119, 202, 235, 133>>
prime64_5 == <<197, 103, 86, 22, 47, 235, 212, 39>>

RECURSIVE U64AddFrom(_, _, _, _)
U64AddFrom(a, b, i, carry) ==
    IF i > 8 THEN <<>>
    ELSE <<(a[i] + b[i] + carry) % 256>>
         \o U64AddFrom(a, b, i + 1, (a[i] + b[i] + carry) \div 256)

\* a + b
U64Add(a, b) == U64AddFrom(a, b, 1, 0)

\* a - b
U64Sub(a, b) ==
    U64Add(U64Add(a, [i \in 1..8 |-> 255 - b[i]]), LE(1, 8))

RECURSIVE U64Column(_, _, _, _)
\* the sum of a[i] * b[k + 1 - i] over i = 1..k
U64Column(a, b, k, i) ==
    IF i > k THEN 0 ELSE a[i] * b[k + 1 - i] + U64Column(a, b, k, i + 1)

RECURSIVE U64MulFrom(_, _, _, _)
U64MulFrom(a, b, k, carry) ==
    IF k > 8 THEN <<>>
    ELSE <<(carry + U64Column(a, b, k, 1)) % 256>>
         \o U64MulFrom(a, b, k + 1, (carry + U64Column(a, b, k, 1)) \div 256)

\* a * b
U64Mul(a, b) == U64MulFrom(a, b, 1, 0)

\* a ^ b
U64Xor(a, b) == [i \in 1..8 |-> Xor(a[i], b[i], 8)]

\* a >> n, 0 <= n < 64
U64Shr(a, n) ==
    LET q == n \div 8
        r == n % 8
        B(j) == IF j <= 8 THEN a[j] ELSE 0
    IN  [i \in 1..8 |->
            (B(i + q) \div (2 ^ r)) + (B(i + q + 1) % (2 ^ r)) * (2 ^ (8 - r))]

\* a << n, 0 <= n < 64
U64Shl(a, n) ==
    LET q == n \div 8
        r == n % 8
        B(j) == IF j >= 1 THEN a[j] ELSE 0
    IN  [i \in 1..8 |->
            ((B(i - q) * (2 ^ r)) % 256) + (B(i - q - 1) \div (2 ^ (8 - r)))]

\* (x << r) | (x >> (64 - r)), 0 < r < 64
rotl64(x, r) ==
    LET hi == U64Shl(x, r)
        lo == U64Shr(x, 64 - r)
    IN  [i \in 1..8 |-> hi[i] + lo[i]]

\* the accumulator step of the 32-byte loop
XXH64Round(acc, input) ==
    U64Mul(rotl64(U64Add(acc, U64Mul(input, prime64_2)), 31), prime64_1)

\* merge64
merge64(acc, val) ==
    U64Add(U64Mul(U64Xor(acc, XXH64Round(LE(0, 8), val)), prime64_1),
           prime64_4)

RECURSIVE XXH64Stripes(_, _, _)
\* the do-while over 32-byte stripes; v: the four accumulators, p: the offset
XXH64Stripes(data, p, v) ==
    LET v2 == [j \in 1..4 |->
                  XXH64Round(v[j], Field(data, p + 8 * (j - 1), 8))]
    IN  IF p + 32 + 32 <= Len(data)
        THEN XXH64Stripes(data, p + 32, v2)
        ELSE [v |-> v2, p |-> p + 32]

RECURSIVE XXH64Tail8(_, _, _)
\* while (p + 8 <= end)
XXH64Tail8(data, p, h64) ==
    IF p + 8 <= Len(data)
    THEN XXH64Tail8(data, p + 8,
             U64Add(U64Mul(rotl64(U64Xor(h64,
                                    XXH64Round(LE(0, 8), Field(data, p, 8))),
                                  27),
                           prime64_1),
                    prime64_4))
    ELSE [h64 |-> h64, p |-> p]

\* if (p + 4 <= end)
XXH64Tail4(data, p, h64) ==
    IF p + 4 <= Len(data)
    THEN [h64 |-> U64Add(U64Mul(rotl64(U64Xor(h64,
                                         U64Mul(Field(data, p, 4) \o Zeros(4),
                                                prime64_1)),
                                       23),
                                prime64_2),
                         prime64_3),
          p   |-> p + 4]
    ELSE [h64 |-> h64, p |-> p]

RECURSIVE XXH64Tail1(_, _, _)
\* while (p < end)
XXH64Tail1(data, p, h64) ==
    IF p < Len(data)
    THEN XXH64Tail1(data, p + 1,
             U64Mul(rotl64(U64Xor(h64, U64Mul(LE(data[p + 1], 8), prime64_5)),
                           11),
                    prime64_1))
    ELSE h64

\* the final mixing
XXH64Avalanche(h) ==
    LET h1 == U64Mul(U64Xor(h, U64Shr(h, 33)), prime64_2)
        h2 == U64Mul(U64Xor(h1, U64Shr(h1, 29)), prime64_3)
    IN  U64Xor(h2, U64Shr(h2, 32))

\* XXH64(data, len, seed): the 8 bytes of the hash, least significant first
XXH64(data, seed) ==
    LET s  == LE(seed, 8)
        st == XXH64Stripes(data, 0,
                  <<U64Add(U64Add(s, prime64_1), prime64_2),
                    U64Add(s, prime64_2),
                    s,
                    U64Sub(s, prime64_1)>>)
        long == Len(data) >= 32
        h0 == IF long
              THEN merge64(merge64(merge64(merge64(
                       U64Add(U64Add(rotl64(st.v[1], 1), rotl64(st.v[2], 7)),
                              U64Add(rotl64(st.v[3], 12), rotl64(st.v[4], 18))),
                       st.v[1]), st.v[2]), st.v[3]), st.v[4])
              ELSE U64Add(s, prime64_5)
        p0 == IF long THEN st.p ELSE 0
        t8 == XXH64Tail8(data, p0, U64Add(h0, LE(Len(data), 8)))
        t4 == XXH64Tail4(data, t8.p, t8.h64)
    IN  XXH64Avalanche(XXH64Tail1(data, t4.p, t4.h64))

\* static_cast<u32>(XXH64(data, len, 0) & 0xFFFFFFFF), as 4 LE bytes
XXH64Checksum(data) == SubSeq(XXH64(data, 0), 1, 4)

(***************************************************************************)
(* The external block compressor.  ZSTD_compressCCtx is outside the        *)
(* repository; it is modelled as a lossless codec that stores the frame    *)
(* behind a three-byte frame header, and that may report an error.         *)
(***************************************************************************)
ZSTD_compressCCtx(frame) == <<40, 181, Len(frame)>> \o frame

ZSTD_decompress(comp) == SubSeq(comp, 4, Len(comp))

(***************************************************************************)
(* Z3DSMetadata.                                                           *)
(***************************************************************************)
METADATA_VERSION == 1
TYPE_END == 0
TYPE_BINARY == 1
MAX_NAME_LEN == 255
MAX_DATA_LEN == 65535

\* a slip in Add: insert instead of operator[], an existing name keeps its value
Add_KeepsFirst(table, name, data) ==
    [n \in DOMAIN table \cup {name} |->
        IF n \in DOMAIN table THEN table[n] ELSE data]

\* Z3DSMetadata::Add: insert or overwrite by name
Add(table, name, data) ==
    [n \in DOMAIN table \cup {name} |-> IF n = name THEN data ELSE table[n]]

\* a slip in the item: the lengths are clamped, the name is written in full
ItemBinary_WholeName(name, data) ==
    LET name_len == Min(MAX_NAME_LEN, Len(name))
        data_len == Min(MAX_DATA_LEN, Len(data))
    IN  <<TYPE_BINARY, name_len>> \o LE(data_len, 2)
        \o name \o SubSeq(data, 1, data_len)

\* one serialized item: the 4-byte Item header, then the name and data bytes
ItemBinary(name, data) ==
    LET name_len == Min(MAX_NAME_LEN, Len(name))
        data_len == Min(MAX_DATA_LEN, Len(data))
    IN  <<TYPE_BINARY, name_len>> \o LE(data_len, 2)
        \o SubSeq(name, 1, name_len) \o SubSeq(data, 1, data_len)

\* a slip in AsBinary: the end item is not written
AsBinary_NoEndItem(table, order) ==
    IF DOMAIN table = {} THEN <<>>
    ELSE <<METADATA_VERSION>>
         \o Flatten([i \in 1..Len(order) |-> ItemBinary(order[i], table[order[i]])])

\* Z3DSMetadata::AsBinary; order is the iteration order of the unordered_map
AsBinary(table, order) ==
    IF DOMAIN table = {} THEN <<>>
    ELSE <<METADATA_VERSION>>
         \o Flatten([i \in 1..Len(order) |-> ItemBinary(order[i], table[order[i]])])
         \o <<TYPE_END, 0, 0, 0>>

(***************************************************************************)
(* The parsing constructor Z3DSMetadata(source_data).  It reads from a     *)
(* std::istringstream, which is modelled by its get position and its       *)
(* eofbit and failbit.                                                     *)
(***************************************************************************)
\* istream::read of n bytes: on a stream that is not good nothing is read and
\* failbit is set; when fewer than n bytes are left they are all extracted
\* and eofbit and failbit are set
IStreamRead(buf, in, n) ==
    IF in.eof \/ in.fail
    THEN [in |-> [in EXCEPT !.fail = TRUE], got |-> <<>>]
    ELSE IF Len(buf) - in.pos >= n
    THEN [in  |-> [in EXCEPT !.pos = @ + n],
          got |-> SubSeq(buf, in.pos + 1, in.pos + n)]
    ELSE [in  |-> [pos |-> Len(buf), eof |-> TRUE, fail |-> TRUE],
          got |-> SubSeq(buf, in.pos + 1, Len(buf))]

\* istream::ignore of n bytes: running out of bytes sets eofbit alone
IStreamIgnore(buf, in, n) ==
    IF in.eof \/ in.fail THEN [in EXCEPT !.fail = TRUE]
    ELSE IF Len(buf) - in.pos >= n THEN [in EXCEPT !.pos = @ + n]
    ELSE [pos |-> Len(buf), eof |-> TRUE, fail |-> FALSE]

\* a zero-initialised object of n bytes after a read stored got into it
Stored(got, n) == [i \in 1..n |-> IF i <= Len(got) THEN got[i] ELSE 0]

\* items.insert: a name already present keeps its value
Insert(table, name, data) ==
    IF name \in DOMAIN table THEN table ELSE Add(table, name, data)

RECURSIVE ParseItems_StopsAtUnknown(_, _, _)
\* a slip in the loop: an item of an unknown type ends the parse instead of
\* being skipped
ParseItems_StopsAtUnknown(buf, in, table) ==
    IF in.eof THEN [items |-> table, in |-> in]
    ELSE
      LET r        == IStreamRead(buf, in, 4)
          item     == Stored(r.got, 4)
          name_len == item[2]
          data_len == item[3] + 256 * item[4]
          rn       == IStreamRead(buf, r.in, name_len)
          rd       == IStreamRead(buf, rn.in, data_len)
      IN  IF item[1] # TYPE_BINARY
          THEN [items |-> table, in |-> r.in]
          ELSE ParseItems_StopsAtUnknown(buf, rd.in,
                          Insert(table, Stored(rn.got, name_len),
                                        Stored(rd.got, data_len)))

RECURSIVE ParseItems(_, _, _)
\* the while (!in.eof()) loop of the constructor
ParseItems(buf, in, table) ==
    IF in.eof THEN [items |-> table, in |-> in]
    ELSE
      LET r        == IStreamRead(buf, in, 4)
          item     == Stored(r.got, 4)
          type     == item[1]
          name_len == item[2]
          data_len == item[3] + 256 * item[4]
          rn       == IStreamRead(buf, r.in, name_len)
          rd       == IStreamRead(buf, rn.in, data_len)
      IN  IF type = TYPE_END
          THEN [items |-> table, in |-> r.in]
          ELSE IF type # TYPE_BINARY
          THEN ParseItems(buf, IStreamIgnore(buf, r.in, name_len + data_len),
                          table)
          ELSE ParseItems(buf, rd.in,
                          Insert(table, Stored(rn.got, name_len),
                                        Stored(rd.got, data_len)))

\* a slip in the constructor: the version byte is read but not compared
Z3DSMetadata_NoVersionCheck(bytes) ==
    IF bytes = <<>>
    THEN [items |-> <<>>, in |-> [pos |-> 0, eof |-> FALSE, fail |-> FALSE]]
    ELSE ParseItems(bytes, [pos |-> 1, eof |-> FALSE, fail |-> FALSE], <<>>)

\* Z3DSMetadata::Z3DSMetadata(const std::vector<u8>&): the items map it builds
\* and the state it leaves its stream in
Z3DSMetadata(bytes) ==
    IF bytes = <<>>
    THEN [items |-> <<>>, in |-> [pos |-> 0, eof |-> FALSE, fail |-> FALSE]]
    ELSE IF bytes[1] # METADATA_VERSION
    THEN [items |-> <<>>, in |-> [pos |-> 1, eof |-> FALSE, fail |-> FALSE]]
    ELSE ParseItems(bytes, [pos |-> 1, eof |-> FALSE, fail |-> FALSE], <<>>)

NameCompressor == <<99, 111, 109, 112, 114, 101, 115, 115, 111, 114>>
ToolIdentity ==
    <<90, 51, 68, 83, 32, 67, 76, 73, 32, 84, 111, 111, 108, 32, 118, 49, 46, 48>>
NameDate == <<100, 97, 116, 101>>
NameMaxFrameSize == <<109, 97, 120, 102, 114, 97, 109, 101, 115, 105, 122, 101>>
\* GetCurrentTimeISO: "%Y-%m-%dT%H:%M:%SZ", always 20 characters
GetCurrentTimeISO ==
    <<50, 48, 50, 54, 45, 49, 49, 45, 48, 51, 84, 49, 50, 58, 48, 48, 58, 48, 48, 90>>

\* the metadata CompressZ3DSFile assembles: derived keys, then the caller's
BuildMetadata(fsize, extra) ==
    LET derived ==
            Add(Add(Add(<<>>, NameCompressor, ToolIdentity),
                    NameDate, GetCurrentTimeISO),
                NameMaxFrameSize, to_string(fsize))
    IN  [n \in DOMAIN derived \cup DOMAIN extra |->
            IF n \in DOMAIN extra THEN extra[n] ELSE derived[n]]

(***************************************************************************)
(* DetectFileMagic.  The std::ifstream is the same record as the parser's  *)
(* stream: get position, eofbit, failbit.                                  *)
(***************************************************************************)
MAGIC_3DSX == <<51, 68, 83, 88>>
MAGIC_NCCH == <<78, 67, 67, 72>>
MAGIC_NCSD == <<78, 67, 83, 68>>
MAGIC_UNKN == <<85, 78, 75, 78>>
\* 0x100
NCCH_MAGIC_OFFSET == 256
\* 0x30, ASN.1 SEQUENCE
ASN1_SEQUENCE == 48
\* '.'
DOT == 46
\* ".cia"
EXT_CIA == <<46, 99, 105, 97>>

\* istream::seekg(pos, beg): eofbit is cleared, and the position is moved
\* unless the stream has failed
IStreamSeek(in, pos) ==
    IF in.fail THEN [in EXCEPT !.eof = FALSE]
    ELSE [pos |-> pos, eof |-> FALSE, fail |-> FALSE]

\* ::tolower on each character
ToLower(str) ==
    [i \in 1..Len(str) |-> IF str[i] >= 65 /\ str[i] <= 90 THEN str[i] + 32
                                                           ELSE str[i]]

\* filename.find_last_of('.'): the index of the last dot from 0, or -1 (npos)
FindLastOfDot(name) ==
    LET dots == {i \in 1..Len(name) : name[i] = DOT}
    IN  IF dots = {} THEN -1
        ELSE (CHOOSE i \in dots : \A j \in dots : j <= i) - 1

\* DetectFileMagic on a file of the given name and bytes; threw: the call
\* left by std::out_of_range from filename.substr(npos)
DetectFileMagic(name, content, opened) ==
    LET start == [pos |-> 0, eof |-> FALSE, fail |-> FALSE]
        r1    == IStreamRead(content, start, 4)
        r2    == IStreamRead(content, IStreamSeek(r1.in, NCCH_MAGIC_OFFSET), 4)
        r3    == IStreamRead(content, IStreamSeek(r2.in, 0), 4)
        dot   == FindLastOfDot(name)
        ext   == ToLower(SubSeq(name, dot + 1, Len(name)))
        Tag(t) == [threw |-> FALSE, tag |-> t]
    IN  IF ~opened THEN Tag(MAGIC_UNKN)
        ELSE IF Len(r1.got) >= 4 /\ r1.got = MAGIC_3DSX THEN Tag(MAGIC_3DSX)
        ELSE IF Len(r2.got) >= 4 /\ r2.got = MAGIC_NCCH THEN Tag(MAGIC_NCCH)
        ELSE IF Len(r2.got) >= 4 /\ r2.got = MAGIC_NCSD THEN Tag(MAGIC_NCSD)
        ELSE IF Len(r3.got) >= 4 /\ r3.got[1] = ASN1_SEQUENCE
        THEN IF dot < 0 THEN [threw |-> TRUE, tag |-> <<>>]
             ELSE IF ext = EXT_CIA THEN Tag(MAGIC_NCSD)
             ELSE Tag(MAGIC_UNKN)
        ELSE Tag(MAGIC_UNKN)

(***************************************************************************)
(* Z3DSFileHeader, 32 bytes, little-endian.                                *)
(***************************************************************************)
HEADER_SIZE == 32
EXPECTED_MAGIC == <<90, 51, 68, 83>>
EXPECTED_VERSION == 1

HeaderBinary(h) ==
    h.magic \o h.underlying_magic \o <<h.version, h.reserved>>
    \o LE(h.header_size, 2) \o LE(h.metadata_size, 4)
    \o LE(h.compressed_size, 8) \o LE(h.uncompressed_size, 8)

\* a slip in the rounding: an aligned size gets a whole block of padding
AlignedSize_AlwaysPads(size) == ((size + 16) \div 16) * 16

\* ((size + 15) / 16) * 16
AlignedSize(size) == ((size + 15) \div 16) * 16

(***************************************************************************)
(* The output stream: its bytes, its put position and its state.  A write  *)
(* on a failed stream does nothing; a failing write leaves the stream      *)
(* failed.                                                                 *)
(***************************************************************************)
Overwrite(data, pos, bytes) ==
    IF pos = Len(data) THEN data \o bytes ELSE
    [i \in 1..Max(Len(data), pos + Len(bytes)) |->
        IF i > pos /\ i <= pos + Len(bytes) THEN bytes[i - pos] ELSE data[i]]

StreamWrite(s, bytes, fails) ==
    IF ~s.good THEN s
    ELSE IF fails THEN [s EXCEPT !.good = FALSE]
    ELSE [data |-> Overwrite(s.data, s.pos, bytes),
          pos  |-> s.pos + Len(bytes),
          good |-> TRUE]

RECURSIVE StreamWriteAll(_, _, _)
\* the writes of chunks in order; write number failAt fails (0: none does)
StreamWriteAll(s, chunks, failAt) ==
    IF chunks = <<>> THEN s
    ELSE StreamWriteAll(StreamWrite(s, Head(chunks), failAt = 1),
                        Tail(chunks), failAt - 1)

\* ostream::seekp: no effect on a failed stream
StreamSeek(s, pos) == IF s.good THEN [s EXCEPT !.pos = pos] ELSE s

\* static_cast<u32>: the value modulo 2^32, computed on 16-bit halves
U32(x) == (x % 65536) + 65536 * ((x \div 65536) % 65536)

(***************************************************************************)
(* SeekableZSTDCompressor.  The object is a record of its fields; each     *)
(* method is an operator from the object and the output stream to the      *)
(* method's result and their new values.                                   *)
(***************************************************************************)
\* 0x184D2A5E
SKIPPABLE_MAGIC == 407710302
\* 0x8F92EAB1, as it is laid out in the file
SEEKABLE_MAGIC_LE == <<177, 234, 146, 143>>
ENTRY_SIZE_CHECKSUM == 12
ENTRY_SIZE_PLAIN == 8
FOOTER_SIZE == 9
SKIPPABLE_HEADER_SIZE == 8
DESCRIPTOR_CHECKSUM == 128

\* the constructor
NewCompressor(frame_sz, checksums) ==
    [frame_size        |-> frame_sz,
     frame_buffer      |-> <<>>,
     current_frame_pos |-> 0,
     total_compressed  |-> 0,
     seek_entries      |-> <<>>,
     use_checksums     |-> checksums]

\* what the environment does to one FlushFrame: nothing, the compressor
\* reports an error, or the write of the compressed frame fails
Faults == {"none", "compress", "write"}

\* a slip in the bookkeeping: the new entry is put in front of the list
FlushFrame_Prepend(c, o, fault) ==
    IF c.frame_buffer = <<>>
    THEN [ok |-> TRUE, c |-> c, o |-> o, flushed |-> <<>>, log |-> <<>>]
    ELSE
      LET compressed == ZSTD_compressCCtx(c.frame_buffer)
          o2         == StreamWrite(o, compressed, fault = "write")
          entry      == [compressed_size   |-> U32(Len(compressed)),
                         decompressed_size |-> U32(Len(c.frame_buffer)),
                         checksum          |-> SimpleHash64(c.frame_buffer, 0)]
      IN  IF fault = "compress"
          THEN [ok |-> FALSE, c |-> c, o |-> o, flushed |-> <<>>,
                log |-> <<"Compression error">>]
          ELSE IF ~o2.good
          THEN [ok |-> FALSE, c |-> c, o |-> o2, flushed |-> <<>>, log |-> <<>>]
          ELSE [ok |-> TRUE,
                c  |-> [c EXCEPT
                          !.seek_entries = <<entry>> \o @,
                          !.total_compressed = @ + Len(compressed),
                          !.frame_buffer = <<>>,
                          !.current_frame_pos = 0],
                o  |-> o2,
                flushed |-> <<[raw |-> c.frame_buffer, comp |-> compressed]>>,
                log |-> <<>>]

\* a slip in the order: the entry is recorded and the buffer reset before the
\* output stream is looked at
FlushFrame_RecordsBeforeCheck(c, o, fault) ==
    IF c.frame_buffer = <<>>
    THEN [ok |-> TRUE, c |-> c, o |-> o, flushed |-> <<>>, log |-> <<>>]
    ELSE
      LET compressed == ZSTD_compressCCtx(c.frame_buffer)
          o2         == StreamWrite(o, compressed, fault = "write")
          entry      == [compressed_size   |-> U32(Len(compressed)),
                         decompressed_size |-> U32(Len(c.frame_buffer)),
                         checksum          |-> IF c.use_checksums
                                               THEN SimpleHash64(c.frame_buffer, 0)
                                               ELSE Zeros(4)]
          c2         == [c EXCEPT
                           !.seek_entries = Append(@, entry),
                           !.total_compressed = @ + Len(compressed),
                           !.frame_buffer = <<>>,
                           !.current_frame_pos = 0]
      IN  IF fault = "compress"
          THEN [ok |-> FALSE, c |-> c, o |-> o, flushed |-> <<>>,
                log |-> <<"Compression error">>]
          ELSE IF ~o2.good
          THEN [ok |-> FALSE, c |-> c2, o |-> o2, flushed |-> <<>>,
                log |-> <<>>]
          ELSE [ok |-> TRUE, c |-> c2, o |-> o2,
                flushed |-> <<[raw |-> c.frame_buffer, comp |-> compressed]>>,
                log |-> <<>>]

\* a slip in the reset: current_frame_pos is not set back to 0
FlushFrame_KeepsPos(c, o, fault) ==
    IF c.frame_buffer = <<>>
    THEN [ok |-> TRUE, c |-> c, o |-> o, flushed |-> <<>>, log |-> <<>>]
    ELSE
      LET compressed == ZSTD_compressCCtx(c.frame_buffer)
          o2         == StreamWrite(o, compressed, fault = "write")
          entry      == [compressed_size   |-> U32(Len(compressed)),
                         decompressed_size |-> U32(Len(c.frame_buffer)),
                         checksum          |-> IF c.use_checksums
                                               THEN SimpleHash64(c.frame_buffer, 0)
                                               ELSE Zeros(4)]
      IN  IF fault = "compress"
          THEN [ok |-> FALSE, c |-> c, o |-> o, flushed |-> <<>>,
                log |-> <<"Compression error">>]
          ELSE IF ~o2.good
          THEN [ok |-> FALSE, c |-> c, o |-> o2, flushed |-> <<>>, log |-> <<>>]
          ELSE [ok |-> TRUE,
                c  |-> [c EXCEPT
                          !.seek_entries = Append(@, entry),
                          !.total_compressed = @ + Len(compressed),
                          !.frame_buffer = <<>>],
                o  |-> o2,
                flushed |-> <<[raw |-> c.frame_buffer, comp |-> compressed]>>,
                log |-> <<>>]

\* FlushFrame.  flushed holds the frame handed to the compressor and written,
\* if any.
FlushFrame(c, o, fault) ==
    IF c.frame_buffer = <<>>
    THEN [ok |-> TRUE, c |-> c, o |-> o, flushed |-> <<>>, log |-> <<>>]
    ELSE
      LET checksum   == IF c.use_checksums
                        THEN SimpleHash64(c.frame_buffer, 0)
                        ELSE Zeros(4)
          compressed == ZSTD_compressCCtx(c.frame_buffer)
          o2         == StreamWrite(o, compressed, fault = "write")
          entry      == [compressed_size   |-> U32(Len(compressed)),
                         decompressed_size |-> U32(Len(c.frame_buffer)),
                         checksum          |-> checksum]
      IN  IF fault = "compress"
          THEN [ok |-> FALSE, c |-> c, o |-> o, flushed |-> <<>>,
                log |-> <<"Compression error">>]
          ELSE IF ~o2.good
          THEN [ok |-> FALSE, c |-> c, o |-> o2, flushed |-> <<>>, log |-> <<>>]
          ELSE [ok |-> TRUE,
                c  |-> [c EXCEPT
                          !.seek_entries = Append(@, entry),
                          !.total_compressed = @ + Len(compressed),
                          !.frame_buffer = <<>>,
                          !.current_frame_pos = 0],
                o  |-> o2,
                flushed |-> <<[raw |-> c.frame_buffer, comp |-> compressed]>>,
                log |-> <<>>]

\* a slip in the entry loop: the checksum field is never written
SeekTableWrites_NoChecksum(c) ==
    <<LE(SKIPPABLE_MAGIC, 4),
      LE(U32(Len(c.seek_entries) * ENTRY_SIZE_CHECKSUM + FOOTER_SIZE), 4)>>
    \o Flatten([i \in 1..Len(c.seek_entries) |->
                  <<LE(c.seek_entries[i].compressed_size, 4),
                    LE(c.seek_entries[i].decompressed_size, 4)>>])
    \o <<LE(U32(Len(c.seek_entries)), 4), <<DESCRIPTOR_CHECKSUM>>,
         SEEKABLE_MAGIC_LE>>

\* a slip in the footer: the frame count is one short
SeekTableWrites_CountOffByOne(c) ==
    <<LE(SKIPPABLE_MAGIC, 4),
      LE(U32(Len(c.seek_entries) * ENTRY_SIZE_CHECKSUM + FOOTER_SIZE), 4)>>
    \o Flatten([i \in 1..Len(c.seek_entries) |->
                  <<LE(c.seek_entries[i].compressed_size, 4),
                    LE(c.seek_entries[i].decompressed_size, 4),
                    c.seek_entries[i].checksum>>])
    \o <<LE(U32(Len(c.seek_entries) - 1), 4), <<DESCRIPTOR_CHECKSUM>>,
         SEEKABLE_MAGIC_LE>>

\* a slip in the footer: the descriptor always announces checksums
SeekTableWrites_DescriptorAlwaysSet(c) ==
    LET entry_size == IF c.use_checksums THEN ENTRY_SIZE_CHECKSUM
                                         ELSE ENTRY_SIZE_PLAIN
        table_size == Len(c.seek_entries) * entry_size + FOOTER_SIZE
        EntryWrites(e) ==
            <<LE(e.compressed_size, 4), LE(e.decompressed_size, 4)>>
            \o (IF c.use_checksums THEN <<e.checksum>> ELSE <<>>)
    IN  <<LE(SKIPPABLE_MAGIC, 4), LE(U32(table_size), 4)>>
        \o Flatten([i \in 1..Len(c.seek_entries) |-> EntryWrites(c.seek_entries[i])])
        \o <<LE(U32(Len(c.seek_entries)), 4), <<DESCRIPTOR_CHECKSUM>>,
             SEEKABLE_MAGIC_LE>>

\* the sequence of writes WriteSeekTable issues for a non-empty entry list
SeekTableWrites(c) ==
    LET entry_size == IF c.use_checksums THEN ENTRY_SIZE_CHECKSUM
                                         ELSE ENTRY_SIZE_PLAIN
        table_size == Len(c.seek_entries) * entry_size + FOOTER_SIZE
        EntryWrites(e) ==
            <<LE(e.compressed_size, 4), LE(e.decompressed_size, 4)>>
            \o (IF c.use_checksums THEN <<e.checksum>> ELSE <<>>)
        descriptor == IF c.use_checksums THEN DESCRIPTOR_CHECKSUM ELSE 0
    IN  <<LE(SKIPPABLE_MAGIC, 4), LE(U32(table_size), 4)>>
        \o Flatten([i \in 1..Len(c.seek_entries) |-> EntryWrites(c.seek_entries[i])])
        \o <<LE(U32(Len(c.seek_entries)), 4), <<descriptor>>, SEEKABLE_MAGIC_LE>>

\* a slip in the accounting: the 8-byte prefix is not counted
WriteSeekTable_PrefixNotCounted(c, o, failAt) ==
    IF c.seek_entries = <<>>
    THEN [ok |-> TRUE, c |-> c, o |-> o, log |-> <<>>]
    ELSE
      LET table_size == Len(c.seek_entries) * ENTRY_SIZE_CHECKSUM + FOOTER_SIZE
          o2 == StreamWriteAll(o, SeekTableWrites(c), failAt)
      IN  IF ~o2.good
          THEN [ok |-> FALSE, c |-> c, o |-> o2,
                log |-> <<"Error writing seek table">>]
          ELSE [ok |-> TRUE,
                c  |-> [c EXCEPT !.total_compressed = @ + table_size],
                o  |-> o2,
                log |-> <<>>]

\* a slip in the guard: the table is written for an empty entry list too
WriteSeekTable_EmptyTableWritten(c, o, failAt) ==
    LET entry_size == IF c.use_checksums THEN ENTRY_SIZE_CHECKSUM
                                         ELSE ENTRY_SIZE_PLAIN
        table_size == Len(c.seek_entries) * entry_size + FOOTER_SIZE
        o2 == StreamWriteAll(o, SeekTableWrites(c), failAt)
    IN  IF ~o2.good
        THEN [ok |-> FALSE, c |-> c, o |-> o2,
              log |-> <<"Error writing seek table">>]
        ELSE [ok |-> TRUE,
              c  |-> [c EXCEPT !.total_compressed =
                                  @ + SKIPPABLE_HEADER_SIZE + table_size],
              o  |-> o2,
              log |-> <<>>]

\* WriteSeekTable.  failAt: the number of the write that fails (0: none)
WriteSeekTable(c, o, failAt) ==
    IF c.seek_entries = <<>>
    THEN [ok |-> TRUE, c |-> c, o |-> o, log |-> <<>>]
    ELSE
      LET entry_size == IF c.use_checksums THEN ENTRY_SIZE_CHECKSUM
                                           ELSE ENTRY_SIZE_PLAIN
          table_size == Len(c.seek_entries) * entry_size + FOOTER_SIZE
          o2 == StreamWriteAll(o, SeekTableWrites(c), failAt)
      IN  IF ~o2.good
          THEN [ok |-> FALSE, c |-> c, o |-> o2,
                log |-> <<"Error writing seek table">>]
          ELSE [ok |-> TRUE,
                c  |-> [c EXCEPT !.total_compressed =
                                    @ + SKIPPABLE_HEADER_SIZE + table_size],
                o  |-> o2,
                log |-> <<>>]

\* a slip in the loop: the result of FlushFrame is not looked at
WriteDataIteration_IgnoresFlushResult(c, o, data, fault) ==
    LET to_copy == Min(Len(data), c.frame_size - c.current_frame_pos)
        c1 == [c EXCEPT !.frame_buffer = @ \o SubSeq(data, 1, to_copy),
                        !.current_frame_pos = @ + to_copy]
        rest == SubSeq(data, to_copy + 1, Len(data))
    IN  IF c1.current_frame_pos >= c1.frame_size
        THEN LET f == FlushFrame(c1, o, fault)
             IN  [ok |-> TRUE, c |-> f.c, o |-> f.o,
                  flushed |-> f.flushed, rest |-> rest, log |-> f.log]
        ELSE [ok |-> TRUE, c |-> c1, o |-> o, flushed |-> <<>>, rest |-> rest,
              log |-> <<>>]

\* a slip in the loop: the frame is also flushed when the call's data runs out
WriteDataIteration_FlushPerCall(c, o, data, fault) ==
    LET to_copy == Min(Len(data), c.frame_size - c.current_frame_pos)
        c1 == [c EXCEPT !.frame_buffer = @ \o SubSeq(data, 1, to_copy),
                        !.current_frame_pos = @ + to_copy]
        rest == SubSeq(data, to_copy + 1, Len(data))
    IN  IF c1.current_frame_pos >= c1.frame_size \/ rest = <<>>
        THEN LET f == FlushFrame(c1, o, fault)
             IN  [ok |-> f.ok, c |-> f.c, o |-> f.o,
                  flushed |-> f.flushed, rest |-> rest, log |-> f.log]
        ELSE [ok |-> TRUE, c |-> c1, o |-> o, flushed |-> <<>>, rest |-> rest,
              log |-> <<>>]

\* one iteration of the while loop of WriteData: copy, then flush when full
WriteDataIteration(c, o, data, fault) ==
    LET to_copy == Min(Len(data), c.frame_size - c.current_frame_pos)
        c1 == [c EXCEPT !.frame_buffer = @ \o SubSeq(data, 1, to_copy),
                        !.current_frame_pos = @ + to_copy]
        rest == SubSeq(data, to_copy + 1, Len(data))
    IN  IF c1.current_frame_pos >= c1.frame_size
        THEN LET f == FlushFrame(c1, o, fault)
             IN  [ok |-> f.ok, c |-> f.c, o |-> f.o,
                  flushed |-> f.flushed, rest |-> rest, log |-> f.log]
        ELSE [ok |-> TRUE, c |-> c1, o |-> o, flushed |-> <<>>, rest |-> rest,
              log |-> <<>>]

\* Finish: flush the partial frame, then write the seek table
Finish(c, o, fault, failAt) ==
    LET f == IF c.frame_buffer # <<>>
             THEN FlushFrame(c, o, fault)
             ELSE [ok |-> TRUE, c |-> c, o |-> o, flushed |-> <<>>,
                   log |-> <<>>]
        t == WriteSeekTable(f.c, f.o, failAt)
    IN  IF ~f.ok
        THEN [ok |-> FALSE, c |-> f.c, o |-> f.o, flushed |-> f.flushed,
              log |-> f.log]
        ELSE [ok |-> t.ok, c |-> t.c, o |-> t.o, flushed |-> f.flushed,
              log |-> t.log]

(***************************************************************************)
(* The compressor seen through its byte counts.  frame_size,               *)
(* current_frame_pos, frame_buffer.size() and seek_entries.size() are      *)
(* size_t values, carried here as 8 little-endian bytes; the fields of a   *)
(* SeekEntry and the trailer's length field are u32, carried as 4.  The    *)
(* stream and the compressor do not fail here.                             *)
(***************************************************************************)
\* the size_t of a number below 2^31
U64Of(n) == LE(n, 8)

\* a < b
U64Less(a, b) ==
    LET d == {i \in 1..8 : a[i] # b[i]}
    IN  /\ d # {}
        /\ LET top == CHOOSE i \in d : \A j \in d : j <= i
           IN  a[top] < b[top]

\* std::min(a, b)
U64Min(a, b) == IF U64Less(b, a) THEN b ELSE a

\* static_cast<u32> of a size_t: its low 4 bytes
Cast32(a) == SubSeq(a, 1, 4)

\* the number a u32 field holds, as a size_t
Widen(b) == b \o Zeros(4)

\* the byte count of ZSTD_compressCCtx(frame) for a frame of n bytes
CompressedSize(n) == U64Add(n, U64Of(3))

NoEntry ==
    [present |-> FALSE, compressed_size |-> Zeros(4),
     decompressed_size |-> Zeros(4), compressed |-> Zeros(8),
     frame |-> Zeros(8)]

NoTrailer ==
    [written |-> FALSE, frame_size |-> Zeros(4), table_size |-> Zeros(8)]

\* the constructor
NewCounters(frame_sz, n, checksums) ==
    [frame_size        |-> frame_sz,
     frame_buffer_size |-> U64Of(0),
     current_frame_pos |-> U64Of(0),
     seek_entries      |-> n,
     use_checksums     |-> checksums]

\* FlushFrame: the entry it appends, next to the byte counts it describes
FlushFrameSizes(c) ==
    IF c.frame_buffer_size = U64Of(0) THEN [c |-> c, entry |-> NoEntry]
    ELSE
      LET compressed_size == CompressedSize(c.frame_buffer_size)
      IN  [c     |-> [c EXCEPT !.seek_entries = U64Add(@, U64Of(1)),
                               !.frame_buffer_size = U64Of(0),
                               !.current_frame_pos = U64Of(0)],
           entry |-> [present           |-> TRUE,
                      compressed_size   |-> Cast32(compressed_size),
                      decompressed_size |-> Cast32(c.frame_buffer_size),
                      compressed        |-> compressed_size,
                      frame             |-> c.frame_buffer_size]]

\* WriteSeekTable: the length field it writes, next to table_size
WriteSeekTableSizes(c) ==
    IF c.seek_entries = U64Of(0) THEN NoTrailer
    ELSE
      LET entry_size == IF c.use_checksums THEN ENTRY_SIZE_CHECKSUM
                                           ELSE ENTRY_SIZE_PLAIN
          table_size == U64Add(U64Mul(c.seek_entries, U64Of(entry_size)),
                               U64Of(FOOTER_SIZE))
      IN  [written    |-> TRUE,
           frame_size |-> Cast32(table_size),
           table_size |-> table_size]

(***************************************************************************)
(* CompressZ3DSFile.                                                       *)
(***************************************************************************)
VARIABLES
    src,              \* the bytes of the source file
    frame_size,       \* the frame_size argument
    metadata,         \* the metadata argument (the caller's extra items)
    update_callback,  \* whether a progress callback was passed
    input,            \* the source stream: read position and state
    output,           \* the destination stream
    header,           \* the Z3DSFileHeader object
    metadata_binary,  \* meta.AsBinary()
    compressor,       \* the SeekableZSTDCompressor object
    buffer,           \* the bytes of the last read not yet consumed by WriteData
    read_size,        \* input.gcount() of the last read
    processed,        \* bytes fed to the compressor so far
    pc,               \* the position in CompressZ3DSFile
    result,           \* "none" while running, then "success" or "failure"
    cerr,             \* the lines written to std::cerr
    frames,           \* history: the frames flushed, uncompressed and compressed
    calls,            \* history: the arguments of the progress callback's calls
    items,            \* a Z3DSMetadata object: its items map
    adds,             \* history: the Add calls made on the object
    source_data,      \* a serialized metadata block, the parser's argument
    parsed,           \* the items map of the Z3DSMetadata built from it
    mpc,              \* the position in the life of the Z3DSMetadata object
    filename,         \* DetectFileMagic's argument
    file,             \* the bytes of the file of that name
    is_open,          \* whether that file can be opened
    magic,            \* what DetectFileMagic returned, or that it threw
    spc,              \* the position of the DetectFileMagic call
    counters,         \* a SeekableZSTDCompressor object: its byte counts
    remaining,        \* WriteData's local: bytes of the call not yet copied
    feeds,            \* the number of WriteData calls made on it
    last_entry,       \* the SeekEntry appended last, and the counts it is of
    trailer,          \* the length field WriteSeekTable wrote, and table_size
    cpc               \* the position in the life of that compressor

vars == <<src, frame_size, metadata, update_callback, input, output, header,
          metadata_binary, compressor, buffer, read_size, processed, pc,
          result, cerr, frames, calls, items, adds, source_data,
          parsed, mpc, filename, file, is_open, magic, spc,
          counters, remaining, feeds, last_entry, trailer, cpc>>

\* the variables of the metadata object
metaVars == <<items, adds, source_data, parsed, mpc>>

\* the variables of the DetectFileMagic call
sniffVars == <<filename, file, is_open, magic, spc>>

\* the variables of the compressor followed by its byte counts
sizeVars == <<counters, remaining, feeds, last_entry, trailer, cpc>>

\* the variables of the encoder
encVars == <<src, frame_size, metadata, update_callback, input, output, header,
             metadata_binary, compressor, buffer, read_size, processed, pc,
             result, cerr, frames, calls>>

\* the tag the caller sniffed: "NCCH"
UnderlyingMagic == <<78, 67, 67, 72>>

\* "extra-key"
NameExtra == <<101, 120, 116, 114, 97, 45, 107, 101, 121>>

\* the extra metadata a caller passes: one item "extra-key"
ExtraMetadata == {Add(<<>>, NameExtra, Fill(n, 255)) : n \in 0..MaxExtraLen}

\* a default-constructed Z3DSFileHeader
NewHeader ==
    [magic             |-> EXPECTED_MAGIC,
     underlying_magic  |-> <<0, 0, 0, 0>>,
     version           |-> EXPECTED_VERSION,
     reserved          |-> 0,
     header_size       |-> HEADER_SIZE,
     metadata_size     |-> 0,
     compressed_size   |-> 0,
     uncompressed_size |-> 0]

\* The inputs: every source up to MaxLen bytes with the default (empty)
\* metadata argument, and every extra metadata item with the short sources.
Init ==
    /\ \/ /\ src \in SeqsUpTo(SrcBytes, MaxLen)
          /\ metadata = <<>>
          /\ update_callback \in BOOLEAN
       \/ /\ src \in SeqsUpTo({171}, MaxMetaSrcLen)
          /\ metadata \in ExtraMetadata
          /\ update_callback = FALSE
    /\ frame_size \in 0..MaxFrame
    /\ input = [pos |-> 0, good |-> TRUE]
    /\ output = [data |-> <<>>, pos |-> 0, good |-> TRUE]
    /\ header = NewHeader
    /\ metadata_binary = <<>>
    /\ compressor = NewCompressor(0, TRUE)
    /\ buffer = <<>>
    /\ read_size = 0
    /\ processed = 0
    /\ pc = "open"
    /\ result = "none"
    /\ cerr = <<>>
    /\ frames = <<>>
    /\ calls = <<>>
    /\ items = <<>>
    /\ adds = <<>>
    /\ source_data = <<>>
    /\ parsed = Z3DSMetadata(<<>>)
    /\ mpc = "unused"
    /\ filename = <<>>
    /\ file = <<>>
    /\ is_open = FALSE
    /\ magic = [threw |-> FALSE, tag |-> <<>>]
    /\ spc = "unused"
    /\ counters = NewCounters(U64Of(0), U64Of(0), TRUE)
    /\ remaining = U64Of(0)
    /\ feeds = 0
    /\ last_entry = NoEntry
    /\ trailer = NoTrailer
    /\ cpc = "unused"

Return(r) ==
    /\ pc' = "done"
    /\ result' = r

\* the source file cannot be opened, or the output file cannot be created
OpenFails ==
    /\ pc = "open"
    /\ Return("failure")
    /\ cerr' = Append(cerr, "Error: Could not open file")
    /\ UNCHANGED <<src, frame_size, metadata, update_callback, input, output,
                   header, metadata_binary, compressor, buffer, read_size, processed,
                   frames, calls>>
    /\ UNCHANGED <<metaVars, sniffVars, sizeVars>>

\* from the opening of the files to the construction of the compressor:
\* the header with its placeholder compressed_size, the metadata, the padding
WriteHeaderAndMetadata ==
    /\ pc = "open"
    /\ LET meta == BuildMetadata(frame_size, metadata)
       IN  \E order \in Orders(DOMAIN meta), failAt \in 0..3 :
             LET binary  == AsBinary(meta, order)
                 h       == [NewHeader EXCEPT
                               !.underlying_magic = UnderlyingMagic,
                               !.uncompressed_size = Len(src),
                               !.metadata_size = U32(AlignedSize(Len(binary)))]
                 padding == h.metadata_size - Len(binary)
             IN  /\ metadata_binary' = binary
                 /\ header' = h
                 /\ output' = StreamWriteAll(output,
                                  <<HeaderBinary(h), binary, Zeros(padding)>>,
                                  failAt)
    /\ compressor' = NewCompressor(frame_size, TRUE)
    /\ processed' = 0
    /\ pc' = "read"
    /\ UNCHANGED <<src, frame_size, metadata, update_callback, input, buffer, read_size,
                   result, cerr, frames, calls>>
    /\ UNCHANGED <<metaVars, sniffVars, sizeVars>>

\* the loop condition and the read of one chunk; a read that returns fewer
\* bytes than asked for leaves the source stream failed
ReadChunk ==
    /\ pc = "read"
    /\ input.good /\ processed < header.uncompressed_size
    /\ LET to_read == Min(BUFFER_SIZE, header.uncompressed_size - processed)
       IN  \E gcount \in 0..to_read :
             /\ input' = [pos  |-> input.pos + gcount,
                          good |-> gcount = to_read]
             /\ buffer' = SubSeq(src, input.pos + 1, input.pos + gcount)
             /\ read_size' = gcount
             /\ pc' = IF gcount = 0 THEN "finish" ELSE "write_data"
    /\ UNCHANGED <<src, frame_size, metadata, update_callback, output, header,
                   metadata_binary, compressor, processed, result, cerr,
                   frames, calls>>
    /\ UNCHANGED <<metaVars, sniffVars, sizeVars>>

\* the loop condition fails
ReadLoopEnds ==
    /\ pc = "read"
    /\ ~(input.good /\ processed < header.uncompressed_size)
    /\ pc' = "finish"
    /\ UNCHANGED <<src, frame_size, metadata, update_callback, input, output,
                   header, metadata_binary, compressor, buffer, read_size, processed,
                   result, cerr, frames, calls>>
    /\ UNCHANGED <<metaVars, sniffVars, sizeVars>>

\* one iteration of WriteData's loop on the bytes read
WriteData ==
    /\ pc = "write_data"
    /\ buffer # <<>>
    /\ \E fault \in Faults :
         LET w == WriteDataIteration(compressor, output, buffer, fault)
         IN  /\ compressor' = w.c
             /\ output' = w.o
             /\ frames' = frames \o w.flushed
             /\ buffer' = w.rest
             /\ IF w.ok
                THEN /\ UNCHANGED <<pc, result>>
                     /\ cerr' = cerr \o w.log
                ELSE /\ Return("failure")
                     /\ cerr' = cerr \o w.log \o <<"Error during compression">>
    /\ UNCHANGED <<src, frame_size, metadata, update_callback, input, header,
                   metadata_binary, read_size, processed, calls>>
    /\ UNCHANGED <<metaVars, sniffVars, sizeVars>>

\* WriteData returned true: count the bytes and report the progress
WriteDataReturns ==
    /\ pc = "write_data"
    /\ buffer = <<>>
    /\ processed' = processed + read_size
    /\ calls' = IF update_callback
                THEN Append(calls, <<processed + read_size,
                                     header.uncompressed_size>>)
                ELSE calls
    /\ pc' = "read"
    /\ UNCHANGED <<src, frame_size, metadata, update_callback, input, output,
                   header, metadata_binary, compressor, buffer, read_size, result,
                   cerr, frames>>
    /\ UNCHANGED <<metaVars, sniffVars, sizeVars>>

\* compressor.Finish()
FinishCompression ==
    /\ pc = "finish"
    /\ \E fault \in Faults,
          failAt \in 0..(3 * Len(compressor.seek_entries) + 8) :
         LET f == Finish(compressor, output, fault, failAt)
         IN  /\ fault # "none" => failAt = 0
             /\ compressor' = f.c
             /\ output' = f.o
             /\ frames' = frames \o f.flushed
             /\ IF f.ok
                THEN /\ pc' = "update_header" /\ UNCHANGED result
                     /\ cerr' = cerr \o f.log
                ELSE /\ Return("failure")
                     /\ cerr' = cerr \o f.log
                                     \o <<"Error finishing compression">>
    /\ UNCHANGED <<src, frame_size, metadata, update_callback, input, header,
                   metadata_binary, buffer, read_size, processed, calls>>
    /\ UNCHANGED <<metaVars, sniffVars, sizeVars>>

\* a slip in the rewrite: the put position is not moved back to header_pos
UpdateHeader_NoSeek ==
    /\ pc = "update_header"
    /\ \E wfail \in BOOLEAN :
         LET h == [header EXCEPT
                     !.compressed_size = compressor.total_compressed]
             o == StreamWrite(output, HeaderBinary(h), wfail)
         IN  /\ header' = h
             /\ output' = o
             /\ Return(IF o.good THEN "success" ELSE "failure")
             /\ cerr' = IF o.good THEN cerr
                        ELSE Append(cerr, "Error writing final header")
    /\ UNCHANGED <<src, frame_size, metadata, update_callback, input,
                   metadata_binary, compressor, buffer, read_size, processed, frames,
                   calls>>
    /\ UNCHANGED <<metaVars, sniffVars, sizeVars>>

\* the header is rewritten at header_pos with the compressed size
UpdateHeader ==
    /\ pc = "update_header"
    /\ \E wfail \in BOOLEAN :
         LET h == [header EXCEPT
                     !.compressed_size = compressor.total_compressed]
             o == StreamWrite(StreamSeek(output, 0), HeaderBinary(h), wfail)
         IN  /\ header' = h
             /\ output' = o
             /\ Return(IF o.good THEN "success" ELSE "failure")
             /\ cerr' = IF o.good THEN cerr
                        ELSE Append(cerr, "Error writing final header")
    /\ UNCHANGED <<src, frame_size, metadata, update_callback, input,
                   metadata_binary, compressor, buffer, read_size, processed, frames,
                   calls>>
    /\ UNCHANGED <<metaVars, sniffVars, sizeVars>>

Next ==
    \/ OpenFails
    \/ WriteHeaderAndMetadata
    \/ ReadChunk
    \/ ReadLoopEnds
    \/ WriteData
    \/ WriteDataReturns
    \/ FinishCompression
    \/ UpdateHeader

Spec == Init /\ [][Next]_vars

(***************************************************************************)
(* A caller of SeekableZSTDCompressor that feeds the source through        *)
(* WriteData in calls of any sizes, then calls Finish: CompressZ3DSFile's  *)
(* loop for every size of its read buffer.                                 *)
(***************************************************************************)
FeedInit ==
    /\ src \in SeqsUpTo(SrcBytes, MaxLen)
    /\ frame_size \in 1..MaxFrame
    /\ metadata = <<>>
    /\ update_callback = TRUE
    /\ input = [pos |-> 0, good |-> TRUE]
    /\ output = [data |-> <<>>, pos |-> 0, good |-> TRUE]
    /\ header = [NewHeader EXCEPT !.uncompressed_size = Len(src)]
    /\ metadata_binary = <<>>
    /\ \E checksums \in BOOLEAN :
         compressor = NewCompressor(frame_size, checksums)
    /\ buffer = <<>>
    /\ read_size = 0
    /\ processed = 0
    /\ pc = "read"
    /\ result = "none"
    /\ cerr = <<>>
    /\ frames = <<>>
    /\ calls = <<>>
    /\ items = <<>>
    /\ adds = <<>>
    /\ source_data = <<>>
    /\ parsed = Z3DSMetadata(<<>>)
    /\ mpc = "unused"
    /\ filename = <<>>
    /\ file = <<>>
    /\ is_open = FALSE
    /\ magic = [threw |-> FALSE, tag |-> <<>>]
    /\ spc = "unused"
    /\ counters = NewCounters(U64Of(0), U64Of(0), TRUE)
    /\ remaining = U64Of(0)
    /\ feeds = 0
    /\ last_entry = NoEntry
    /\ trailer = NoTrailer
    /\ cpc = "unused"

\* the next call of WriteData gets the next size bytes of the source
FeedChunk ==
    /\ pc = "read"
    /\ processed < Len(src)
    /\ \E size \in 1..(Len(src) - processed) :
         /\ input' = [input EXCEPT !.pos = @ + size]
         /\ buffer' = SubSeq(src, input.pos + 1, input.pos + size)
         /\ read_size' = size
    /\ pc' = "write_data"
    /\ UNCHANGED <<src, frame_size, metadata, update_callback, output, header,
                   metadata_binary, compressor, processed, result, cerr,
                   frames, calls>>
    /\ UNCHANGED <<metaVars, sniffVars, sizeVars>>

\* the whole source was fed
FeedEnds ==
    /\ pc = "read"
    /\ processed = Len(src)
    /\ pc' = "finish"
    /\ UNCHANGED <<src, frame_size, metadata, update_callback, input, output,
                   header, metadata_binary, compressor, buffer, read_size, processed,
                   result, cerr, frames, calls>>
    /\ UNCHANGED <<metaVars, sniffVars, sizeVars>>

FeedNext ==
    \/ FeedChunk
    \/ FeedEnds
    \/ WriteData
    \/ WriteDataReturns
    \/ FinishCompression

FeedSpec == FeedInit /\ [][FeedNext]_vars

(***************************************************************************)
(* The life of a Z3DSMetadata object: Add calls, AsBinary, and the parsing *)
(* constructor applied to the block, or to a block received from a file.   *)
(***************************************************************************)
\* "k"
NameK == <<107>>
\* a name of exactly 255 bytes
Name255 == [i \in 1..MAX_NAME_LEN |-> 97]
\* two names of 256 bytes that differ in their last byte only
LongNameA == Name255 \o <<97>>
LongNameB == Name255 \o <<98>>

MetaNames == {NameK, Name255, LongNameA, LongNameB}

\* "v", "w" and the empty value
ShortValues == {<<118>>, <<119>>, <<>>}
\* a value of 65536 bytes
LongValue == [i \in 1..(MAX_DATA_LEN + 1) |-> 255]

\* the Add calls explored: every name with every short value, and the long
\* value on a table of its own
ShortAdds == {<<name, data>> : name \in MetaNames, data \in ShortValues}
LongAdds == {<<NameK, LongValue>>}

\* serialized items a received block is made of: k -> v, k -> w, an item of
\* an unknown type, and an item with an empty name and no data
StreamItems ==
    {<<1, 1, 1, 0, 107, 118>>, <<1, 1, 1, 0, 107, 119>>,
     <<2, 1, 1, 0, 107, 118>>, <<1, 0, 0, 0>>}

\* how a received block ends: an end item, nothing, an end item and more bytes
StreamEnds == {<<0, 0, 0, 0>>, <<>>, <<0, 0, 0, 0, 1, 1, 1, 0, 110, 118>>}

StreamVersions == {0, METADATA_VERSION, 2}

\* the blocks handed to the parser: every prefix of every such block
ReceivedBlocks ==
    LET full == {<<ver>> \o Flatten(its) \o end :
                    ver \in StreamVersions,
                    its \in SeqsUpTo(StreamItems, MaxItems),
                    end \in StreamEnds}
    IN  UNION {{SubSeq(f, 1, n) : n \in 0..Len(f)} : f \in full}

MetaInit ==
    /\ src = <<>>
    /\ frame_size = 0
    /\ metadata = <<>>
    /\ update_callback = FALSE
    /\ input = [pos |-> 0, good |-> TRUE]
    /\ output = [data |-> <<>>, pos |-> 0, good |-> TRUE]
    /\ header = NewHeader
    /\ metadata_binary = <<>>
    /\ compressor = NewCompressor(0, TRUE)
    /\ buffer = <<>>
    /\ read_size = 0
    /\ processed = 0
    /\ pc = "unused"
    /\ result = "none"
    /\ cerr = <<>>
    /\ frames = <<>>
    /\ calls = <<>>
    /\ items = <<>>
    /\ adds = <<>>
    /\ parsed = Z3DSMetadata(<<>>)
    /\ filename = <<>>
    /\ file = <<>>
    /\ is_open = FALSE
    /\ magic = [threw |-> FALSE, tag |-> <<>>]
    /\ spc = "unused"
    /\ counters = NewCounters(U64Of(0), U64Of(0), TRUE)
    /\ remaining = U64Of(0)
    /\ feeds = 0
    /\ last_entry = NoEntry
    /\ trailer = NoTrailer
    /\ cpc = "unused"
    /\ \/ /\ mpc = "table"
          /\ source_data = <<>>
       \/ /\ mpc = "received"
          /\ source_data \in ReceivedBlocks

\* meta.Add(name, data)
MetaAdd ==
    /\ mpc = "table"
    /\ Len(adds) < MaxAdds
    /\ \A i \in 1..Len(adds) : adds[i] \notin LongAdds
    /\ \E call \in ShortAdds \cup (IF adds = <<>> THEN LongAdds ELSE {}) :
         /\ items' = Add(items, call[1], call[2])
         /\ adds' = Append(adds, call)
    /\ UNCHANGED <<source_data, parsed, mpc>>
    /\ UNCHANGED <<encVars, sniffVars, sizeVars>>

\* meta.AsBinary()
MetaAsBinary ==
    /\ mpc = "table"
    /\ \E order \in Orders(DOMAIN items) :
         source_data' = AsBinary(items, order)
    /\ mpc' = "serialized"
    /\ UNCHANGED <<items, adds, parsed>>
    /\ UNCHANGED <<encVars, sniffVars, sizeVars>>

\* Z3DSMetadata(source_data), on the block just serialized or on a received one
MetaParse ==
    /\ mpc \in {"serialized", "received"}
    /\ parsed' = Z3DSMetadata(source_data)
    /\ mpc' = IF mpc = "serialized" THEN "roundtrip" ELSE "parsed"
    /\ UNCHANGED <<items, adds, source_data>>
    /\ UNCHANGED <<encVars, sniffVars, sizeVars>>

MetaNext ==
    \/ MetaAdd
    \/ MetaAsBinary
    \/ MetaParse

MetaSpec == MetaInit /\ [][MetaNext]_vars

(***************************************************************************)
(* A call of DetectFileMagic on a file.                                    *)
(***************************************************************************)
\* the first bytes of the files: "3DSX", a 0x30 byte, zeros
FileHeads == {MAGIC_3DSX, <<ASN1_SEQUENCE, 0, 0, 0>>, <<0, 0, 0, 0>>}
\* the bytes at 0x100, when the file reaches that far
FileTagsAt100 == {MAGIC_NCCH, MAGIC_NCSD, <<0, 0, 0, 0>>}
\* the lengths of the files, around the two windows [0, 4) and [0x100, 0x104)
FileLengths == {0, 1, 3, 4, 100, 256, 258, 259, 260, 261}

FileOf(head, at100, len) ==
    [i \in 1..len |->
        IF i <= 4 THEN head[i]
        ELSE IF i > NCCH_MAGIC_OFFSET /\ i <= NCCH_MAGIC_OFFSET + 4
        THEN at100[i - NCCH_MAGIC_OFFSET]
        ELSE 0]

Files ==
    {FileOf(head, at100, len) :
        head \in FileHeads, at100 \in FileTagsAt100, len \in FileLengths}

\* "a.cia", "a.CIA", "a.3dsx", "acia", "a.cia.bak", "d.cia/a"
Filenames ==
    {<<97, 46, 99, 105, 97>>, <<97, 46, 67, 73, 65>>,
     <<97, 46, 51, 100, 115, 120>>, <<97, 99, 105, 97>>,
     <<97, 46, 99, 105, 97, 46, 98, 97, 107>>,
     <<100, 46, 99, 105, 97, 47, 97>>}

SniffInit ==
    /\ src = <<>>
    /\ frame_size = 0
    /\ metadata = <<>>
    /\ update_callback = FALSE
    /\ input = [pos |-> 0, good |-> TRUE]
    /\ output = [data |-> <<>>, pos |-> 0, good |-> TRUE]
    /\ header = NewHeader
    /\ metadata_binary = <<>>
    /\ compressor = NewCompressor(0, TRUE)
    /\ buffer = <<>>
    /\ read_size = 0
    /\ processed = 0
    /\ pc = "unused"
    /\ result = "none"
    /\ cerr = <<>>
    /\ frames = <<>>
    /\ calls = <<>>
    /\ items = <<>>
    /\ adds = <<>>
    /\ source_data = <<>>
    /\ parsed = Z3DSMetadata(<<>>)
    /\ mpc = "unused"
    /\ filename \in Filenames
    /\ file \in Files
    /\ is_open \in BOOLEAN
    /\ magic = [threw |-> FALSE, tag |-> <<>>]
    /\ spc = "call"
    /\ counters = NewCounters(U64Of(0), U64Of(0), TRUE)
    /\ remaining = U64Of(0)
    /\ feeds = 0
    /\ last_entry = NoEntry
    /\ trailer = NoTrailer
    /\ cpc = "unused"

\* DetectFileMagic(filename)
Detect ==
    /\ spc = "call"
    /\ magic' = DetectFileMagic(filename, file, is_open)
    /\ spc' = "returned"
    /\ UNCHANGED <<filename, file, is_open>>
    /\ UNCHANGED <<encVars, metaVars, sizeVars>>

SniffNext == Detect

SniffSpec == SniffInit /\ [][SniffNext]_vars

(***************************************************************************)
(* A compressor followed by its byte counts: WriteData calls, then Finish. *)
(* frame_size is any value the caller can pass (main.cpp reads it with     *)
(* std::stoull and passes it on unchecked); the object is picked up with   *)
(* the number of entries it has after the frames flushed so far.           *)
(***************************************************************************)
\* 2^32
Pow32 == <<0, 0, 0, 0, 1, 0, 0, 0>>

\* the frame sizes explored: small ones, the two defaults, and the ones
\* around 2^32
FrameSizes ==
    {U64Of(1), U64Of(2), U64Of(1048576), U64Of(33554432),
     U64Sub(Pow32, U64Of(4)), U64Sub(Pow32, U64Of(3)),
     U64Sub(Pow32, U64Of(1)), Pow32, U64Add(Pow32, U64Of(1))}

\* the numbers of entries the object is picked up with: none, and with a
\* small frame size one less than the largest number whose table_size is
\* below 2^32
EntryCounts(frame_sz, checksums) ==
    IF U64Less(frame_sz, U64Of(3))
    THEN {U64Of(0), IF checksums THEN U64Of(357913939)
                                 ELSE U64Of(536870909)}
    ELSE {U64Of(0)}

\* the sizes of the WriteData calls, around the frame size
CallSizes(frame_sz) ==
    {U64Of(1), U64Sub(frame_sz, U64Of(1)), frame_sz,
     U64Add(frame_sz, U64Of(1))} \ {U64Of(0)}

SizeInit ==
    /\ src = <<>>
    /\ frame_size = 0
    /\ metadata = <<>>
    /\ update_callback = FALSE
    /\ input = [pos |-> 0, good |-> TRUE]
    /\ output = [data |-> <<>>, pos |-> 0, good |-> TRUE]
    /\ header = NewHeader
    /\ metadata_binary = <<>>
    /\ compressor = NewCompressor(0, TRUE)
    /\ buffer = <<>>
    /\ read_size = 0
    /\ processed = 0
    /\ pc = "unused"
    /\ result = "none"
    /\ cerr = <<>>
    /\ frames = <<>>
    /\ calls = <<>>
    /\ items = <<>>
    /\ adds = <<>>
    /\ source_data = <<>>
    /\ parsed = Z3DSMetadata(<<>>)
    /\ mpc = "unused"
    /\ filename = <<>>
    /\ file = <<>>
    /\ is_open = FALSE
    /\ magic = [threw |-> FALSE, tag |-> <<>>]
    /\ spc = "unused"
    /\ \E frame_sz \in FrameSizes, checksums \in BOOLEAN :
         \E n \in EntryCounts(frame_sz, checksums) :
            counters = NewCounters(frame_sz, n, checksums)
    /\ remaining = U64Of(0)
    /\ feeds = 0
    /\ last_entry = NoEntry
    /\ trailer = NoTrailer
    /\ cpc = "idle"

\* WriteData(data, size) is called
SizeWriteData ==
    /\ cpc = "idle"
    /\ feeds < MaxFeeds
    /\ \E size \in CallSizes(counters.frame_size) : remaining' = size
    /\ feeds' = feeds + 1
    /\ cpc' = "feeding"
    /\ UNCHANGED <<counters, last_entry, trailer>>
    /\ UNCHANGED <<encVars, metaVars, sniffVars>>

\* one iteration of the while loop of WriteData
SizeIteration ==
    /\ cpc = "feeding"
    /\ remaining # U64Of(0)
    /\ LET to_copy == U64Min(remaining,
                             U64Sub(counters.frame_size,
                                    counters.current_frame_pos))
           c1 == [counters EXCEPT
                     !.frame_buffer_size = U64Add(@, to_copy),
                     !.current_frame_pos = U64Add(@, to_copy)]
           f  == FlushFrameSizes(c1)
       IN  /\ remaining' = U64Sub(remaining, to_copy)
           /\ IF ~U64Less(c1.current_frame_pos, c1.frame_size)
              THEN /\ counters' = f.c
                   /\ last_entry' = f.entry
              ELSE /\ counters' = c1
                   /\ UNCHANGED last_entry
    /\ UNCHANGED <<feeds, trailer, cpc>>
    /\ UNCHANGED <<encVars, metaVars, sniffVars>>

\* the loop ends and WriteData returns true
SizeWriteDataReturns ==
    /\ cpc = "feeding"
    /\ remaining = U64Of(0)
    /\ cpc' = "idle"
    /\ UNCHANGED <<counters, remaining, feeds, last_entry, trailer>>
    /\ UNCHANGED <<encVars, metaVars, sniffVars>>

\* Finish: the partial frame is flushed, then the seek table is written
SizeFinish ==
    /\ cpc = "idle"
    /\ LET f == FlushFrameSizes(counters)
       IN  /\ counters' = f.c
           /\ last_entry' = IF f.entry.present THEN f.entry ELSE last_entry
           /\ trailer' = WriteSeekTableSizes(f.c)
    /\ cpc' = "finished"
    /\ UNCHANGED <<remaining, feeds>>
    /\ UNCHANGED <<encVars, metaVars, sniffVars>>

SizeNext ==
    \/ SizeWriteData
    \/ SizeIteration
    \/ SizeWriteDataReturns
    \/ SizeFinish

SizeSpec == SizeInit /\ [][SizeNext]_vars

(***************************************************************************)
(* Reading the container back from the bytes of the destination file.      *)
(***************************************************************************)
File == output.data

HdrMetadataSize == FromLE(Field(File, 12, 4))
HdrCompressedSize == FromLE(Field(File, 16, 8))
HdrUncompressedSize == FromLE(Field(File, 24, 8))

\* the offset of the first byte after the padded metadata block
BodyStart == HEADER_SIZE + HdrMetadataSize

RECURSIVE SumOf(_, _)
\* the sum of Measure(s[i]) over a sequence
SumOf(Measure(_), s) ==
    IF s = <<>> THEN 0 ELSE Measure(Head(s)) + SumOf(Measure, Tail(s))

CompLen(f) == Len(f.comp)

DecompressedSize(e) == e.decompressed_size

\* the bytes of the file after the last compressed frame
Trailer == SubSeq(File, BodyStart + SumOf(CompLen, frames) + 1, Len(File))

TrailerEntry(i) ==
    [compressed_size   |-> FromLE(Field(Trailer, 8 + 12 * (i - 1), 4)),
     decompressed_size |-> FromLE(Field(Trailer, 12 + 12 * (i - 1), 4)),
     checksum          |-> Field(Trailer, 16 + 12 * (i - 1), 4)]

TrailerFrameCount == FromLE(Field(Trailer, Len(Trailer) - 9, 4))

\* the entries between the 8-byte prefix and the 9-byte footer
TrailerEntryCount == (Len(Trailer) - 17) \div 12

Success == result = "success"

\* every byte of the source was read (no read came back short)
AllRead == input.pos = Len(src)

\* the uncompressed contents of the frames, concatenated in seek-table order
RawConcat == Flatten([i \in 1..Len(frames) |-> frames[i].raw])

\* what a reader recovers: every frame of the file decompressed, in order
Decoded == Flatten([i \in 1..Len(frames) |-> ZSTD_decompress(frames[i].comp)])

Ceil(a, b) == (a + b - 1) \div b

(***************************************************************************)
(* C1.  After a successful encode with frame_size > 0, the frames handed   *)
(* to the compressor, concatenated in seek-table order, are the source     *)
(* bytes exactly.                                                          *)
(***************************************************************************)
C1_RoundTrip ==
    (Success /\ frame_size > 0) => (RawConcat = src /\ Decoded = src)

\* the same when no read came back short
C1_RoundTripAllRead ==
    (Success /\ frame_size > 0 /\ AllRead) => (RawConcat = src /\ Decoded = src)

(***************************************************************************)
(* C2.  In every container of a successful encode, the decompressed sizes  *)
(* of the seek-table entries sum to the header's uncompressed_size.        *)
(***************************************************************************)
C2_SizesSumToUncompressed ==
    Success =>
        SumOf(DecompressedSize, compressor.seek_entries) = HdrUncompressedSize

\* the same when no read came back short
C2_SizesSumAllRead ==
    (Success /\ AllRead) =>
        SumOf(DecompressedSize, compressor.seek_entries) = HdrUncompressedSize

(***************************************************************************)
(* C3.  A successful encode of L bytes with frame_size F > 0 has exactly   *)
(* ceil(L/F) entries; all but the last have decompressed_size F and the    *)
(* last has L - F*(ceil(L/F) - 1).                                         *)
(***************************************************************************)
FrameSizesAsSpecified ==
    LET L == Len(src)
        F == frame_size
        n == Ceil(L, F)
        E == compressor.seek_entries
    IN  /\ Len(E) = n
        /\ \A i \in 1..Len(E) :
              E[i].decompressed_size = IF i < n THEN F ELSE L - F * (n - 1)

C3_FrameCountAndSizes == (Success /\ frame_size > 0) => FrameSizesAsSpecified

\* the same when no read came back short
C3_FrameCountAllRead ==
    (Success /\ frame_size > 0 /\ AllRead) => FrameSizesAsSpecified

(***************************************************************************)
(* C4.  After a successful encode the compressed_size of the header on     *)
(* disk is the number of bytes that follow the padded metadata block: the  *)
(* compressed lengths of the frames written plus the length of the trailer *)
(* written (8 + 12 per entry + 9; nothing when no frame was written).      *)
(***************************************************************************)
C4_CompressedSize ==
    Success =>
        /\ HdrCompressedSize = Len(File) - BodyStart
        /\ HdrCompressedSize =
              SumOf(CompLen, frames)
              + (IF frames = <<>> THEN 0 ELSE 8 + 12 * Len(frames) + 9)

C4_Witness == Success /\ Len(frames) >= 2

(***************************************************************************)
(* The layout of a container, written down from the format description:    *)
(* header, metadata block, zero padding, frames, trailer.                  *)
(***************************************************************************)
\* the trailer for a list of flushed frames: prefix, entries, footer
LayoutTrailer(fs) ==
    LE(SKIPPABLE_MAGIC, 4) \o LE(12 * Len(fs) + 9, 4)
    \o Flatten([i \in 1..Len(fs) |->
                  LE(Len(fs[i].comp), 4) \o LE(Len(fs[i].raw), 4)
                  \o SimpleHash64(fs[i].raw, 0)])
    \o LE(Len(fs), 4) \o <<128>> \o SEEKABLE_MAGIC_LE

LayoutFrames(fs) == Flatten([i \in 1..Len(fs) |-> fs[i].comp])

\* header and metadata block padded to 16 bytes
LayoutPrologue ==
    HeaderBinary(header) \o metadata_binary
    \o Zeros(header.metadata_size - Len(metadata_binary))

(***************************************************************************)
(* C5 as claimed.  Every container of a successful encode is the 32-byte   *)
(* header, the padded metadata block, the frames back to back and exactly  *)
(* one trailer, for every source length including the empty source.        *)
(***************************************************************************)
C5_AlwaysOneTrailer ==
    Success =>
        File = LayoutPrologue \o LayoutFrames(frames) \o LayoutTrailer(frames)

(***************************************************************************)
(* C5 as amended.  Every container of a successful encode is the 32-byte   *)
(* header, the padded metadata block, the frames back to back and, when at *)
(* least one frame was written, exactly one trailer; when no frame was     *)
(* written the file ends with the metadata block.                          *)
(***************************************************************************)
C5_Layout ==
    Success =>
        /\ Len(HeaderBinary(header)) = 32
        /\ File = LayoutPrologue \o LayoutFrames(frames)
                  \o (IF frames = <<>> THEN <<>> ELSE LayoutTrailer(frames))

C5_Witness == Success /\ src = <<>> /\ Len(File) = BodyStart

(***************************************************************************)
(* C6.  In every trailer written, the footer's frame_count is the number   *)
(* of entries serialized in the trailer and the number of frames written   *)
(* to the body.                                                            *)
(***************************************************************************)
\* Finish wrote a trailer and the stream took every byte of it
TrailerWritten ==
    /\ pc = "update_header" \/ Success
    /\ compressor.seek_entries # <<>>

C6_FrameCount ==
    TrailerWritten =>
        /\ (Len(Trailer) - 17) % 12 = 0
        /\ TrailerFrameCount = TrailerEntryCount
        /\ TrailerFrameCount = Len(frames)

C6_Witness == TrailerWritten /\ TrailerFrameCount = 3

(***************************************************************************)
(* C7.  The i-th entry of the trailer describes the i-th frame of the      *)
(* body, whose bytes start at offset 32 + metadata_size + the sum of the   *)
(* compressed_size of the entries before it; the frames are written in     *)
(* the order of the source bytes.                                          *)
(***************************************************************************)
RECURSIVE PrefixSum(_, _)
\* the sum of the compressed_size of trailer entries 1..k
PrefixSum(Entry(_), k) ==
    IF k = 0 THEN 0 ELSE Entry(k).compressed_size + PrefixSum(Entry, k - 1)

IsPrefix(a, b) == Len(a) <= Len(b) /\ a = SubSeq(b, 1, Len(a))

C7_EntriesLocateFrames ==
    /\ IsPrefix(RawConcat, src)
    /\ TrailerWritten =>
         \A i \in 1..Len(frames) :
            LET e   == TrailerEntry(i)
                off == 32 + HdrMetadataSize + PrefixSum(TrailerEntry, i - 1)
            IN  /\ e.compressed_size = Len(frames[i].comp)
                /\ e.decompressed_size = Len(frames[i].raw)
                /\ Field(File, off, e.compressed_size) = frames[i].comp
                /\ ZSTD_decompress(Field(File, off, e.compressed_size))
                     = Field(src, SumOf(DecompressedSize,
                                        SubSeq(compressor.seek_entries, 1, i - 1)),
                             e.decompressed_size)

\* two frames, the last one shorter than the first
C7_Witness ==
    /\ Success
    /\ Len(frames) = 2
    /\ Len(frames[2].raw) < Len(frames[1].raw)

(***************************************************************************)
(* C8.  metadata_size is the smallest multiple of 16 not below the length  *)
(* of the serialized metadata, and the file bytes between the end of the   *)
(* serialized metadata and offset 32 + metadata_size are zero.             *)
(***************************************************************************)
\* header, metadata and padding have been written and the stream took them
PrologueWritten == pc # "open" /\ Len(File) >= 32 + header.metadata_size

C8_MetadataPadding ==
    pc # "open" =>
        /\ header.metadata_size % 16 = 0
        /\ header.metadata_size >= Len(metadata_binary)
        /\ header.metadata_size - 16 < Len(metadata_binary)
        /\ PrologueWritten =>
             /\ HdrMetadataSize = header.metadata_size
             /\ Field(File, 32, Len(metadata_binary)) = metadata_binary
             /\ \A i \in (32 + Len(metadata_binary) + 1)..(32 + HdrMetadataSize) :
                   File[i] = 0

\* a padded block and, among the reachable ones, an exactly aligned one
C8_Witness ==
    /\ PrologueWritten
    /\ metadata # <<>>
    /\ Len(metadata_binary) % 16 = 15

C8_WitnessAligned == PrologueWritten /\ Len(metadata_binary) = header.metadata_size

(***************************************************************************)
(* C9.  Every encode call terminates, for every frame_size including 0:    *)
(* in every state in which the call has not returned, its next step makes  *)
(* progress (changes the state).                                           *)
(***************************************************************************)
C9_Terminates == pc = "done" \/ ENABLED <<Next>>_vars

\* with a positive frame_size every iteration of the feed loop consumes input
C9_FeedLoopProgressPositiveFrame ==
    (frame_size > 0 /\ pc = "write_data" /\ buffer # <<>>) =>
        \A fault \in Faults :
            Len(WriteDataIteration(compressor, output, buffer, fault).rest)
                < Len(buffer)

(***************************************************************************)
(* C10.  An encode called with frame_size = 0 never reports success.       *)
(***************************************************************************)
C10_ZeroFrameSizeRejected == frame_size = 0 => ~Success

(***************************************************************************)
(* C11.  Once the compressor has reported an error for a frame, the encode *)
(* has returned failure and takes no further step: no further frame is     *)
(* compressed or written, no trailer is written and the header is not      *)
(* rewritten, so the file is the prologue with compressed_size 0 followed  *)
(* by the frames written before the error.                                 *)
(***************************************************************************)
CompressorError == \E i \in 1..Len(cerr) : cerr[i] = "Compression error"

C11_CompressorErrorStopsEncode ==
    CompressorError =>
        /\ pc = "done" /\ result = "failure"
        /\ ~ENABLED Next
        /\ header.compressed_size = 0
        /\ compressor.frame_buffer # <<>>
        /\ Len(compressor.seek_entries) = Len(frames)
        /\ IsPrefix(File, LayoutPrologue \o LayoutFrames(frames))
        /\ output.good => File = LayoutPrologue \o LayoutFrames(frames)
        /\ Len(File) >= 32 => HdrCompressedSize = 0

\* the compressor fails on the second frame, after the first was written
C11_Witness ==
    /\ CompressorError
    /\ Len(frames) = 1
    /\ Len(File) = BodyStart + Len(frames[1].comp)

(***************************************************************************)
(* C12.  The encode never returns success having fed the compressor fewer  *)
(* than uncompressed_size bytes: a read that fails or returns no bytes     *)
(* before that makes it return failure.                                    *)
(***************************************************************************)
C12_ShortReadFails == Success => processed = header.uncompressed_size

(***************************************************************************)
(* C13.  However the source is split into WriteData calls, the frames      *)
(* flushed so far are the first frames of the split of the source into     *)
(* pieces of frame_size bytes, and after Finish they are all of them, with *)
(* the seek entries that describe them.                                    *)
(***************************************************************************)
\* the frames of a source for a frame size, by position alone
FramesOf(source, F) ==
    [i \in 1..Ceil(Len(source), F) |->
        LET raw == SubSeq(source, (i - 1) * F + 1, Min(i * F, Len(source)))
        IN  [raw |-> raw, comp |-> ZSTD_compressCCtx(raw)]]

EntryOf(f) ==
    [compressed_size   |-> Len(f.comp),
     decompressed_size |-> Len(f.raw),
     checksum          |-> IF compressor.use_checksums
                           THEN SimpleHash64(f.raw, 0)
                           ELSE Zeros(4)]

C13_FramesIndependentOfSplit ==
    LET all == FramesOf(src, frame_size)
    IN  /\ Len(frames) <= Len(all)
        /\ \A i \in 1..Len(frames) : frames[i] = all[i]
        /\ compressor.seek_entries = [i \in 1..Len(frames) |-> EntryOf(all[i])]
        /\ pc = "update_header" => Len(frames) = Len(all)
        /\ pc = "update_header" => IsPrefix(LayoutFrames(all), File)
        /\ (pc = "update_header" /\ compressor.use_checksums) =>
              File = LayoutFrames(all)
                     \o (IF all = <<>> THEN <<>> ELSE LayoutTrailer(all))

\* a call smaller than the frame, then one as large: the first frame spans both
C13_Witness ==
    /\ pc = "update_header"
    /\ frame_size = 2
    /\ Len(calls) = 2 /\ calls[1][1] = 1 /\ calls[2][1] = 3
    /\ Len(frames) = 2

\* one call larger than the frame
C13_WitnessLargeCall ==
    /\ pc = "update_header"
    /\ frame_size = 1
    /\ Len(calls) = 1 /\ calls[1][1] = 3
    /\ Len(frames) = 3

(***************************************************************************)
(* C14.  The final rewrite of the header starts where the placeholder      *)
(* header started and writes 32 bytes in the same layout: the file keeps   *)
(* its length, and only the compressed_size field (bytes 16..23) may       *)
(* change; the metadata, the frames and the trailer are left as they were. *)
(***************************************************************************)
C14_HeaderRewriteInPlace ==
    [][(pc = "update_header" /\ output.good) =>
          /\ Len(output'.data) = Len(output.data)
          /\ \A i \in 1..Len(output.data) :
                (i <= 16 \/ i > 24) => output'.data[i] = output.data[i]
          /\ output'.good =>
                /\ output'.pos = 32
                /\ SubSeq(output'.data, 1, 32) = HeaderBinary(header')
                /\ FromLE(Field(output'.data, 16, 8))
                      = compressor.total_compressed]_vars

\* a rewrite that changed the field, with frames and a trailer behind it
C14_Witness == Success /\ HdrCompressedSize > 0 /\ Len(frames) = 2

(***************************************************************************)
(* Reading a metadata block by its format: after the version byte, items   *)
(* of a 4-byte header {type, name_len, data_len} followed by name_len name *)
(* bytes and data_len data bytes, up to an item of type 0.                 *)
(***************************************************************************)
RECURSIVE WalkItems(_, _)
\* the complete items from offset pos on, and how the walk ended: at an end
\* item, at the end of the buffer, or inside an item
WalkItems(bytes, pos) ==
    IF pos + 4 > Len(bytes)
    THEN [items |-> <<>>, end |-> pos,
          status |-> IF pos = Len(bytes) THEN "eob" ELSE "truncated"]
    ELSE
      LET name_len == bytes[pos + 2]
          data_len == FromLE(Field(bytes, pos + 2, 2))
          next     == pos + 4 + name_len + data_len
          rest     == WalkItems(bytes, next)
      IN  IF bytes[pos + 1] = 0
          THEN [items |-> <<>>, end |-> pos + 4, status |-> "end"]
          ELSE IF next > Len(bytes)
          THEN [items |-> <<>>, end |-> pos, status |-> "truncated"]
          ELSE [items  |-> <<[type     |-> bytes[pos + 1],
                              name_len |-> name_len,
                              data_len |-> data_len,
                              name     |-> Field(bytes, pos + 4, name_len),
                              data     |-> Field(bytes, pos + 4 + name_len,
                                                 data_len)]>> \o rest.items,
                end    |-> rest.end,
                status |-> rest.status]

\* the items of the block in source_data
BlockItems == WalkItems(source_data, 1)

ItemSize(it) == 4 + it.name_len + it.data_len

(***************************************************************************)
(* C15.  A table holds, for each name added, the value of the last Add of  *)
(* that name (Add(k, v) then Add(k, w) leaves the one entry k -> w), and   *)
(* parsing the serialization of a table whose names are at most 255 bytes  *)
(* and whose values are at most 65535 bytes gives the table back.          *)
(***************************************************************************)
LastValue(name) ==
    LET calls_of == {i \in 1..Len(adds) : adds[i][1] = name}
        last     == CHOOSE i \in calls_of : \A j \in calls_of : j <= i
    IN  adds[last][2]

WithinLimits(table) ==
    \A n \in DOMAIN table :
        Len(n) <= MAX_NAME_LEN /\ Len(table[n]) <= MAX_DATA_LEN

C15_RoundTrip ==
    /\ DOMAIN items = {adds[i][1] : i \in 1..Len(adds)}
    /\ \A n \in DOMAIN items : items[n] = LastValue(n)
    /\ (mpc = "roundtrip" /\ WithinLimits(items)) =>
          /\ DOMAIN parsed.items = DOMAIN items
          /\ \A n \in DOMAIN items : parsed.items[n] = items[n]

\* add(k, v); add(k, w); serialize; parse
C15_Witness ==
    /\ mpc = "roundtrip"
    /\ adds = <<<<NameK, <<118>>>>, <<NameK, <<119>>>>>>
    /\ DOMAIN parsed.items = {NameK}
    /\ parsed.items[NameK] = <<119>>

\* a name of exactly 255 bytes comes back whole
C15_WitnessName255 ==
    /\ mpc = "roundtrip"
    /\ DOMAIN items = {NameK, Name255}
    /\ DOMAIN parsed.items = {NameK, Name255}

(***************************************************************************)
(* C16 as claimed.  The serialization of every table, the empty table      *)
(* included, is the version byte, one item {type, name_len, data_len,      *)
(* name, data} per key and a 4-byte end item of zeros; its length is       *)
(* 1 + the sum over the items of (4 + name_len + data_len) + 4.            *)
(***************************************************************************)
BlockLayout ==
    /\ Len(source_data) >= 5
    /\ source_data[1] = METADATA_VERSION
    /\ BlockItems.status = "end"
    /\ BlockItems.end = Len(source_data)
    /\ Field(source_data, Len(source_data) - 4, 4) = <<0, 0, 0, 0>>
    /\ Len(BlockItems.items) = Cardinality(DOMAIN items)
    /\ \A i \in 1..Len(BlockItems.items) :
          BlockItems.items[i].type = TYPE_BINARY
    /\ \A n \in DOMAIN items :
          \E i \in 1..Len(BlockItems.items) :
             /\ IsPrefix(BlockItems.items[i].name, n)
             /\ IsPrefix(BlockItems.items[i].data, items[n])
    /\ Len(source_data) = 1 + SumOf(ItemSize, BlockItems.items) + 4

C16_WitnessEmpty == mpc = "serialized" /\ adds = <<>> /\ source_data = <<>>

(***************************************************************************)
(* C17.  In every serialized block no two items carry the same name bytes, *)
(* whatever the names added and their lengths.                             *)
(***************************************************************************)
C17_NamesUnique ==
    mpc = "serialized" =>
        \A i, j \in 1..Len(BlockItems.items) :
            i # j => BlockItems.items[i].name # BlockItems.items[j].name

(***************************************************************************)
(* C18.  In the serialization of a table every item declares               *)
(* name_len = min(255, |name|) and data_len = min(65535, |data|) and is    *)
(* followed by exactly the first name_len bytes of the name and the first  *)
(* data_len bytes of the data, so that a reader going by the declared      *)
(* lengths arrives at the end item and at the end of the block.            *)
(***************************************************************************)
C18_ClampedLengths ==
    (mpc = "serialized" /\ DOMAIN items # {}) =>
        /\ BlockItems.status = "end"
        /\ BlockItems.end = Len(source_data)
        /\ \E order \in Orders(DOMAIN items) :
              /\ Len(BlockItems.items) = Len(order)
              /\ \A i \in 1..Len(order) :
                    LET it == BlockItems.items[i]
                    IN  /\ it.name_len = Min(255, Len(order[i]))
                        /\ it.data_len = Min(65535, Len(items[order[i]]))
                        /\ it.name = SubSeq(order[i], 1, it.name_len)
                        /\ it.data = SubSeq(items[order[i]], 1, it.data_len)

\* a value of 65536 bytes, emitted as 65535
C18_Witness ==
    /\ mpc = "serialized"
    /\ adds = <<<<NameK, LongValue>>>>
    /\ Len(source_data) = 1 + 4 + 1 + 65535 + 4

\* a name of 256 bytes, emitted as 255
C18_WitnessLongName ==
    /\ mpc = "serialized"
    /\ DOMAIN items = {LongNameA}
    /\ BlockItems.items[1].name_len = 255

(***************************************************************************)
(* C19.  Parsing a block that ends inside an item (an incomplete item      *)
(* header, or declared lengths that run past the end of the buffer) never  *)
(* returns a table with an entry that is not a complete item of the block. *)
(***************************************************************************)
TruncatedBlock ==
    /\ source_data # <<>>
    /\ source_data[1] = METADATA_VERSION
    /\ BlockItems.status = "truncated"

C19_TruncatedNeverYieldsEntry ==
    (mpc = "parsed" /\ TruncatedBlock) =>
        \A n \in DOMAIN parsed.items :
            \E i \in 1..Len(BlockItems.items) :
               /\ BlockItems.items[i].type = TYPE_BINARY
               /\ BlockItems.items[i].name = n
               /\ BlockItems.items[i].data = parsed.items[n]

(***************************************************************************)
(* C20.  Parsing a non-empty block whose first byte is not the version     *)
(* constant returns the empty table having consumed the version byte       *)
(* alone, with the stream in its good state.                               *)
(***************************************************************************)
C20_VersionMismatchEmpty ==
    (mpc = "parsed" /\ source_data # <<>>
                    /\ source_data[1] # METADATA_VERSION) =>
        /\ DOMAIN parsed.items = {}
        /\ parsed.in = [pos |-> 1, eof |-> FALSE, fail |-> FALSE]

\* a block that is well formed but for its version byte
C20_Witness ==
    /\ mpc = "parsed"
    /\ source_data = <<2, 1, 1, 1, 0, 107, 118, 0, 0, 0, 0>>
    /\ DOMAIN parsed.items = {}

(***************************************************************************)
(* C21.  DetectFileMagic returns the first family that matches, in this    *)
(* order, for files of every length: "3DSX" at [0, 4); "NCCH" or "NCSD" at *)
(* [0x100, 0x104); a first byte 0x30 with a ".cia" extension in any case   *)
(* (tag NCSD); otherwise, and for a file that cannot be opened, "UNKN".    *)
(***************************************************************************)
\* the bytes of the file at [off, off + 4), or <<>> when it is shorter
Window(off) == IF Len(file) >= off + 4 THEN Field(file, off, 4) ELSE <<>>

HasCiaExtension ==
    /\ Len(filename) >= 4
    /\ ToLower(SubSeq(filename, Len(filename) - 3, Len(filename))) = EXT_CIA

FirstMatch ==
    IF ~is_open THEN MAGIC_UNKN
    ELSE IF Window(0) = MAGIC_3DSX THEN MAGIC_3DSX
    ELSE IF Window(256) = MAGIC_NCCH THEN MAGIC_NCCH
    ELSE IF Window(256) = MAGIC_NCSD THEN MAGIC_NCSD
    ELSE IF file # <<>> /\ file[1] = 48 /\ HasCiaExtension THEN MAGIC_NCSD
    ELSE MAGIC_UNKN

C21_FirstMatchInOrder ==
    (spc = "returned" /\ ~magic.threw) => magic.tag = FirstMatch

\* the same for the files that reach past the window at 0x100
C21_FirstMatchLongFiles ==
    (spc = "returned" /\ ~magic.threw /\ Len(file) >= 260) =>
        magic.tag = FirstMatch

(***************************************************************************)
(* C22.  DetectFileMagic never raises: for every file name and every file  *)
(* it returns a tag of 4 bytes.                                            *)
(***************************************************************************)
C22_NeverRaises ==
    spc = "returned" => (~magic.threw /\ Len(magic.tag) = 4)

(***************************************************************************)
(* C23.  The checksum of every seek-table entry is the low 32 bits of the  *)
(* XXH64 hash, seed 0, of the uncompressed bytes of the entry's frame.     *)
(***************************************************************************)
C23_ChecksumIsXXH64 ==
    /\ Len(compressor.seek_entries) = Len(frames)
    /\ \A i \in 1..Len(frames) :
          compressor.seek_entries[i].checksum = XXH64Checksum(frames[i].raw)

\* the checksum is a function of the entry's own frame: the hash of this build
C23_ChecksumOfOwnFrame ==
    /\ Len(compressor.seek_entries) = Len(frames)
    /\ \A i \in 1..Len(frames) :
          compressor.seek_entries[i].checksum = SimpleHash64(frames[i].raw, 0)

(***************************************************************************)
(* C24.  With frame_size > 0, between the calls on the compressor (after   *)
(* its construction and after every WriteData that returned true) the      *)
(* buffer holds fewer than frame_size bytes and current_frame_pos is the   *)
(* number of bytes buffered; the frames flushed so far are one for every   *)
(* frame_size bytes fed, so a call that brings the buffered bytes to       *)
(* k * frame_size or more has flushed k frames before it returned.         *)
(***************************************************************************)
BetweenCalls == pc = "read" \/ pc = "finish"

C24_BufferBelowFrameSize ==
    BetweenCalls =>
        /\ Len(compressor.frame_buffer) < frame_size
        /\ compressor.current_frame_pos = Len(compressor.frame_buffer)
        /\ Len(frames) = processed \div frame_size
        /\ Len(compressor.frame_buffer) = processed % frame_size

\* one call of three frames' worth of bytes has flushed three frames
C24_Witness ==
    /\ pc = "read"
    /\ frame_size = 1
    /\ calls = <<<<3, 3>>>>
    /\ Len(frames) = 3
    /\ compressor.frame_buffer = <<>>

(***************************************************************************)
(* C25.  A trailer written for N > 0 entries begins with the magic         *)
(* 0x184D2A5E and a length field that is the number of trailer bytes after *)
(* the 8-byte prefix, N * 12 + 9 with checksums and N * 8 + 9 without; bit *)
(* 7 of the footer's descriptor is set exactly when the entries were       *)
(* written with their checksum field.                                      *)
(***************************************************************************)
\* the bytes the feeder's compressor wrote after the frames
FedTrailer == SubSeq(File, Len(LayoutFrames(frames)) + 1, Len(File))

C25_TrailerPrefixAndDescriptor ==
    (pc = "update_header" /\ frames # <<>>) =>
        LET N          == Len(frames)
            descriptor == FedTrailer[Len(FedTrailer) - 4]
            entry_len  == (Len(FedTrailer) - 17) \div N
            EntryAt(i) == Field(FedTrailer, 8 + entry_len * (i - 1), entry_len)
        IN  /\ FromLE(Field(FedTrailer, 0, 4)) = SKIPPABLE_MAGIC
            /\ FromLE(Field(FedTrailer, 4, 4)) = Len(FedTrailer) - 8
            /\ Len(FedTrailer) - 8 =
                  N * (IF compressor.use_checksums THEN 12 ELSE 8) + 9
            /\ (descriptor \div 128) % 2 = 1 <=> entry_len = 12
            /\ \A i \in 1..N :
                  EntryAt(i) =
                     LE(Len(frames[i].comp), 4) \o LE(Len(frames[i].raw), 4)
                     \o (IF compressor.use_checksums
                         THEN compressor.seek_entries[i].checksum ELSE <<>>)
            /\ FromLE(Field(FedTrailer, Len(FedTrailer) - 9, 4)) = N

\* a trailer without checksum fields
C25_Witness ==
    /\ pc = "update_header"
    /\ ~compressor.use_checksums
    /\ Len(frames) = 2
    /\ Len(FedTrailer) = 8 + 2 * 8 + 9

\* a trailer with checksum fields
C25_WitnessChecksums ==
    /\ pc = "update_header"
    /\ compressor.use_checksums
    /\ Len(frames) = 2
    /\ Len(FedTrailer) = 8 + 2 * 12 + 9

(***************************************************************************)
(* C26.  Finish on a compressor that has flushed no frame and buffers no   *)
(* byte writes nothing, leaves total_compressed at 0 and returns true; and *)
(* FlushFrame on an empty buffer returns true with the compressor and the  *)
(* output as they were.                                                    *)
(***************************************************************************)
NothingToFinish ==
    /\ pc = "finish"
    /\ compressor.seek_entries = <<>>
    /\ compressor.frame_buffer = <<>>

C26_EmptyFinishAndFlushAreNoOps ==
    /\ [][NothingToFinish =>
            /\ pc' = "update_header"
            /\ output' = output
            /\ compressor' = compressor
            /\ compressor'.total_compressed = 0
            /\ frames' = <<>>]_vars
    /\ [](compressor.frame_buffer = <<>> =>
            \A fault \in Faults :
               FlushFrame(compressor, output, fault) =
                  [ok |-> TRUE, c |-> compressor, o |-> output,
                   flushed |-> <<>>, log |-> <<>>])

\* Finish returned on an empty source
C26_Witness ==
    /\ pc = "update_header"
    /\ src = <<>>
    /\ compressor.seek_entries = <<>>
    /\ compressor.total_compressed = 0
    /\ output.good /\ File = LayoutPrologue


(***************************************************************************)
(* C27.  With a progress callback, every invocation has total equal to     *)
(* uncompressed_size and processed at most total, processed grows strictly *)
(* from one invocation to the next and the last one reports the bytes fed  *)
(* so far; and when the encode of a non-empty source returns success the   *)
(* last invocation has processed = total.                                  *)
(***************************************************************************)
\* the invocations so far: one per chunk fed, increasing, within the total
ProgressSound ==
    /\ \A i \in 1..Len(calls) :
         /\ calls[i][2] = header.uncompressed_size
         /\ 0 < calls[i][1] /\ calls[i][1] <= calls[i][2]
    /\ \A i \in 1..(Len(calls) - 1) : calls[i][1] < calls[i + 1][1]
    /\ update_callback /\ pc \in {"read", "finish", "update_header", "done"}
         => IF calls = <<>> THEN processed = 0
            ELSE calls[Len(calls)][1] = processed
    /\ ~update_callback => calls = <<>>

C27_ProgressReachesTotal ==
    /\ ProgressSound
    /\ (Success /\ update_callback /\ src # <<>>)
         => /\ calls # <<>>
            /\ calls[Len(calls)][1] = calls[Len(calls)][2]

\* the part of C27 that the code keeps, with the order of the invocations:
\* the callback is invoked by the step that ends a successful WriteData and
\* by no other, so never once Finish has been called
C27_ProgressSoundAndEarly ==
    /\ [][calls' # calls => /\ pc = "write_data" /\ pc' = "read"
                            /\ Len(calls') = Len(calls) + 1]_vars
    /\ []ProgressSound

(***************************************************************************)
(* C28.  Parsing a block of complete items returns an entry for each name  *)
(* of a binary item before the first end item, and for no other name:      *)
(* items of other types before it are stepped over by their 4 + name_len + *)
(* data_len bytes and give no entry, the binary items after them are       *)
(* returned, and the parse ends just after the first end item, whatever    *)
(* bytes follow it.                                                        *)
(***************************************************************************)
\* a block of the right version whose items are all complete
CompleteBlock ==
    /\ source_data # <<>>
    /\ source_data[1] = METADATA_VERSION
    /\ BlockItems.status # "truncated"

\* the binary items of the block before its first end item
BinaryItems ==
    {i \in 1..Len(BlockItems.items) : BlockItems.items[i].type = TYPE_BINARY}

C28_UnknownSkippedEndStops ==
    (mpc = "parsed" /\ CompleteBlock) =>
        /\ DOMAIN parsed.items = {BlockItems.items[i].name : i \in BinaryItems}
        /\ \A n \in DOMAIN parsed.items :
             \E i \in BinaryItems : /\ BlockItems.items[i].name = n
                                    /\ BlockItems.items[i].data = parsed.items[n]
        /\ BlockItems.status = "end" =>
             parsed.in = [pos |-> BlockItems.end, eof |-> FALSE, fail |-> FALSE]
        /\ BlockItems.status = "eob" => parsed.in.pos = Len(source_data)

\* an item of type 2 named k, then k -> w, then an end item and n -> v
C28_Witness ==
    /\ mpc = "parsed"
    /\ source_data = <<1, 2, 1, 1, 0, 107, 118, 1, 1, 1, 0, 107, 119,
                       0, 0, 0, 0, 1, 1, 1, 0, 110, 118>>
    /\ DOMAIN parsed.items = {<<107>>}
    /\ parsed.items[<<107>>] = <<119>>
    /\ parsed.in.pos = 17

(***************************************************************************)
(* C29.  Parsing a block of complete items in which a name occurs in more  *)
(* than one binary item returns, for that name, the value of the last of   *)
(* them, as Add does.                                                      *)
(***************************************************************************)
\* the binary items of the block that carry the name n
ItemsNamed(n) == {i \in BinaryItems : BlockItems.items[i].name = n}

C29_LaterDuplicateWins ==
    (mpc = "parsed" /\ CompleteBlock) =>
        \A n \in DOMAIN parsed.items :
            \E i \in ItemsNamed(n) :
               /\ \A j \in ItemsNamed(n) : j <= i
               /\ parsed.items[n] = BlockItems.items[i].data

\* what the constructor does: the first item of a name is the one kept
C29_FirstDuplicateKept ==
    (mpc = "parsed" /\ CompleteBlock) =>
        \A n \in DOMAIN parsed.items :
            \E i \in ItemsNamed(n) :
               /\ \A j \in ItemsNamed(n) : i <= j
               /\ parsed.items[n] = BlockItems.items[i].data

(***************************************************************************)
(* C30.  A step in which FlushFrame returns false (in WriteData or in      *)
(* Finish) leaves seek_entries and total_compressed as they were and       *)
(* leaves in the frame buffer the bytes it was called with; when it was    *)
(* the compressor that failed, the output stream is as it was.  And no     *)
(* step of any operation changes or removes an entry of seek_entries: the  *)
(* list only grows at its end.                                             *)
(***************************************************************************)
\* what was written to cerr in the step
Logged == SubSeq(cerr', Len(cerr) + 1, Len(cerr'))

\* the step is a WriteData iteration whose FlushFrame returned false
FlushFailsInWriteData ==
    /\ pc = "write_data" /\ pc' = "done"

\* the step is a Finish whose FlushFrame returned false
FlushFailsInFinish ==
    /\ pc = "finish" /\ pc' = "done"
    /\ \A i \in 1..Len(Logged) : Logged[i] # "Error writing seek table"

C30_FailedFlushChangesNothing ==
    [][/\ IsPrefix(compressor.seek_entries, compressor'.seek_entries)
       /\ (FlushFailsInWriteData \/ FlushFailsInFinish) =>
            /\ compressor'.seek_entries = compressor.seek_entries
            /\ compressor'.total_compressed = compressor.total_compressed
            /\ compressor'.frame_buffer # <<>>
            /\ compressor'.frame_buffer =
                 IF pc = "finish" THEN compressor.frame_buffer
                 ELSE compressor.frame_buffer \o
                      SubSeq(buffer, 1,
                             Min(Len(buffer), compressor.frame_size
                                              - compressor.current_frame_pos))
            /\ compressor'.current_frame_pos = Len(compressor'.frame_buffer)
            /\ frames' = frames
            /\ Logged[1] = "Compression error" => output' = output
            /\ Logged[1] # "Compression error" => ~output'.good]_vars

\* the write of the second frame failed: the first frame's entry is the only
\* one, and the second frame's bytes are still in the buffer
C30_Witness ==
    /\ pc = "done" /\ result = "failure"
    /\ cerr = <<"Error during compression">>
    /\ ~output.good
    /\ Len(compressor.seek_entries) = 1
    /\ compressor.total_compressed = Len(frames[1].comp)
    /\ compressor.frame_buffer # <<>>
    /\ Len(compressor.frame_buffer) = compressor.frame_size

(***************************************************************************)
(* C31.  For every frame size the caller can pass, the compressed_size and *)
(* decompressed_size of every entry appended are the byte counts of the    *)
(* compressed frame and of the frame, and the length field of the trailer  *)
(* is table_size (N * 12 + 9, or N * 8 + 9 without checksums): none of the *)
(* three casts to 32 bits loses a bit.                                     *)
(***************************************************************************)
C31_SizesNeverWrap ==
    /\ last_entry.present =>
         /\ Widen(last_entry.compressed_size) = last_entry.compressed
         /\ Widen(last_entry.decompressed_size) = last_entry.frame
    /\ trailer.written => Widen(trailer.frame_size) = trailer.table_size

\* where the casts are exact: a frame size of at most 2^32 - 4 keeps both
\* sizes of every entry, and up to 357913940 entries with checksums, or
\* 536870910 without, keep the length field
C31_ExactBelowLimits ==
    /\ (last_entry.present
          /\ U64Less(counters.frame_size, U64Sub(Pow32, U64Of(3)))) =>
         /\ Widen(last_entry.compressed_size) = last_entry.compressed
         /\ Widen(last_entry.decompressed_size) = last_entry.frame
    /\ (trailer.written
          /\ U64Less(counters.seek_entries,
                     IF counters.use_checksums THEN U64Of(357913941)
                                               ELSE U64Of(536870911))) =>
         Widen(trailer.frame_size) = trailer.table_size

\* a frame of 2^32 - 4 bytes, compressed to 2^32 - 1: the largest kept
C31_WitnessLargestExact ==
    /\ last_entry.present
    /\ last_entry.frame = U64Sub(Pow32, U64Of(4))
    /\ last_entry.compressed_size = <<255, 255, 255, 255>>

\* a trailer of 357913940 entries with checksums: length field 2^32 - 7
C31_WitnessLargestTable ==
    /\ trailer.written
    /\ counters.use_checksums
    /\ counters.seek_entries = U64Of(357913940)
    /\ trailer.frame_size = <<249, 255, 255, 255>>
=============================================================================
